---------------------------- MODULE Spec2Model ----------------------------
(***************************************************************************)
(* A model of the JAIBird SENS pipeline: the deterministic title           *)
(* categorizer (src/src/analytics/sens_categorizer.py), the OCR quality    *)
(* scorer and the multi-stage PDF parser (src/src/ai/pdf_parser.py) with   *)
(* its callers (src/main.py, src/src/database/models.py), and the company  *)
(* intelligence store with its enricher (src/src/company/company_db.py,    *)
(* src/src/company/enricher.py).                                           *)
(*                                                                         *)
(* Each subsystem has its own specification (SpecCat, SpecOcr, SpecParse,  *)
(* SpecUpsert, SpecDirectors, SpecEnrich, SpecPure) over the module's      *)
(* variables; the variables of the other subsystems stay at their initial  *)
(* value.                                                                  *)
(***************************************************************************)
EXTENDS Integers, Sequences, FiniteSets, TLC

VARIABLES
    \* ---- categorizer: one call of categorize_title
    title,            \* the argument: [null |-> BOOLEAN, text |-> Seq(token)]
    category,         \* <<>> before the call returns, then <<category, is_noise>>
    rules_evaluated,  \* number of pattern.search calls the last call made
    \* ---- OCR extractor: one call of _extract_with_ocr
    pages,            \* the recognised text of each page of the PDF
    total_chars,      \* total_chars handed to _assess_ocr_quality
    quality,          \* "" before the call returns, then "good" or "poor"
    ocr_raised,       \* TRUE when the call caught an exception
    \* ---- PDF parsing: the table and the processes that parse
    sens_announcements,  \* the table: filing -> row, NoRow when absent
    pc,               \* where each process is: "idle", "try", "returned"
    announcements,    \* the announcements a run has still to parse
    announcement,     \* the announcement a process is parsing, or NoAnn
    raised,           \* TRUE when an exception left parse_sens_pdf
    \* ---- company intelligence store and its enricher
    companies,        \* the companies table: row i has id i
    directors,        \* the directors table: row i has id i
    sponsor_history,  \* the sponsor_history table, oldest first
    company_sens,     \* the company_sens table: its rows in insertion order
    ticker_file,      \* the codes listed in data/jse_tickers.txt
    last_call,        \* the last call made to the store or the enricher
    \* ---- the rule table as state, and a log of categorizer calls
    rule_table,       \* the list _CATEGORY_RULES of the categorizer module
    call_log,         \* the categorize_title calls made and what they returned
    \* ---- single calls, recorded with their inputs and what they did
    parse_call,       \* a call of PDFParser.parse_sens_pdf or of one of its helpers
    ocr_call,         \* a call of PDFParser._extract_with_ocr
    anomaly_call,     \* a call of get_unusual_activity_alerts
    sentiment_call,   \* a call of get_sentiment_summary
    enrich_call,      \* a call of CompanyEnricher.enrich_from_announcement
    \* ---- processes
    writers,          \* the upsert_company call each writer process is in
    scheduler         \* the scheduler process: its failure counter and what it did

catVars == <<title, category, rules_evaluated>>

ocrVars == <<pages, total_chars, quality, ocr_raised>>

parseVars == <<sens_announcements, pc, announcements, announcement, raised>>

companyVars == <<companies, directors, sponsor_history, company_sens,
                 ticker_file, last_call>>

pureVars == <<rule_table, call_log>>

callVars == <<parse_call, ocr_call, anomaly_call, sentiment_call, enrich_call>>

procVars == <<writers, scheduler>>

auxVars == <<pureVars, callVars, procVars>>

vars == <<title, category, rules_evaluated,
          pages, total_chars, quality, ocr_raised,
          sens_announcements, pc, announcements, announcement, raised,
          companies, directors, sponsor_history, company_sens,
          ticker_file, last_call,
          rule_table, call_log,
          parse_call, ocr_call, anomaly_call, sentiment_call, enrich_call,
          writers, scheduler>>

(***************************************************************************)
(* The state of a subsystem that is not in use.                            *)
(***************************************************************************)
CatIdle ==
    /\ title = [null |-> TRUE, text |-> <<>>]
    /\ category = <<>>
    /\ rules_evaluated = 0

OcrIdle ==
    /\ pages = <<>>
    /\ total_chars = 0
    /\ quality = ""
    /\ ocr_raised = FALSE

MaxFilings == 2

Filings == 1..MaxFilings

NoRow == [sens_number |-> 0]

NoAnn == [sens_number |-> 0]

Procs == {"scheduler", "parse-pdfs"}

\* an empty table and no run under way
ParseIdle ==
    /\ sens_announcements = [f \in Filings |-> NoRow]
    /\ pc = [p \in Procs |-> "idle"]
    /\ announcements = [p \in Procs |-> {}]
    /\ announcement = [p \in Procs |-> NoAnn]
    /\ raised = [p \in Procs |-> FALSE]

NoCall == [op |-> ""]

\* the tables as _init_schema creates them, and no ticker file
CompanyIdle ==
    /\ companies = <<>>
    /\ directors = <<>>
    /\ sponsor_history = <<>>
    /\ company_sens = <<>>
    /\ ticker_file = {}
    /\ last_call = NoCall

\* the categorizer module before it is imported (line 30), no call made
PureIdle ==
    /\ rule_table = <<>>
    /\ call_log = <<>>

\* no call recorded
CallIdle ==
    /\ parse_call = NoCall
    /\ ocr_call = NoCall
    /\ anomaly_call = NoCall
    /\ sentiment_call = NoCall
    /\ enrich_call = NoCall

\* the processes that write to the company store
Writers == {"scheduler", "backfill"}

\* a writer between two calls
NotCalling == [pc |-> "idle"]

\* JAIBirdScheduler.__init__ and run_scheduler (main.py lines 50-51, 334):
\* the process runs, its counter _consecutive_scrape_failures is 0.  streak
\* counts the scrapes that failed since the last one that succeeded or
\* since the process started; scrapes, alerts and write_failed count what
\* happened over all processes.
SchedulerStarted ==
    [running |-> TRUE, exit |-> "none", failures |-> 0, streak |-> 0,
     status |-> "none", scrapes |-> 0, alerts |-> 0, write_failed |-> FALSE,
     last |-> [via |-> "none"]]

\* no writer is in a call and the scheduler has just started
ProcIdle ==
    /\ writers = [w \in Writers |-> NotCalling]
    /\ scheduler = SchedulerStarted

AuxIdle == PureIdle /\ CallIdle /\ ProcIdle

(***************************************************************************)
(* Strings.  A title is a sequence of tokens (the words of the title,      *)
(* separated by single blanks); the empty sequence is the empty string.    *)
(* A regular expression of the rule table is a sequence of alternatives,   *)
(* each a sequence of elements; an element is a set of lower-case words    *)
(* (one token, any of these words), or one of the marked sets below.       *)
(* A word of a pattern matches a whole token: the titles are built from    *)
(* tokens none of which merely contains, begins or ends with a pattern     *)
(* word it is not equal to.                                                *)
(***************************************************************************)

\* str.lower() of the tokens the titles are built from (re.IGNORECASE folds
\* the case of the title; the patterns are written in lower case).
LowerTok(t) ==
    CASE t = "Transaction" -> "transaction"
      [] t = "TRANSACTION" -> "transaction"
      [] t = "Voluntary"   -> "voluntary"
      [] t = "Announcement" -> "announcement"
      [] t = "Trading"     -> "trading"
      [] t = "Change"      -> "change"
      [] t = "Dividend"    -> "dividend"
      [] t = "Amendment"   -> "amendment"
      [] t = "Renewal"     -> "renewal"
      [] t = "Shares"      -> "shares"
      [] OTHER             -> t

ANY  == {".*"}        \* .*   any run of tokens, possibly empty
END  == {"$"}         \* $    end of the title
NLA(S)     == S \cup {"?!"}     \* \s+(?!a|b)   a token follows and is none of S
NLAREST(S) == S \cup {"?!.*"}   \* (?!.*a)      no later token is one of S

IsAny(e)     == ".*" \in e
IsEnd(e)     == "$" \in e
IsNla(e)     == "?!" \in e
IsNlaRest(e) == "?!.*" \in e

\* One alternative matched at token position pos (the regex engine's
\* backtracking over .* is the existential quantifier).
RECURSIVE MatchFrom(_, _, _, _)
MatchFrom(alt, i, text, pos) ==
    IF i > Len(alt) THEN TRUE
    ELSE LET e == alt[i] IN
         IF IsAny(e) THEN
            \E q \in pos..(Len(text) + 1) : MatchFrom(alt, i + 1, text, q)
         ELSE IF IsEnd(e) THEN
            pos = Len(text) + 1 /\ MatchFrom(alt, i + 1, text, pos)
         ELSE IF IsNla(e) THEN
            /\ pos <= Len(text)
            /\ LowerTok(text[pos]) \notin e
            /\ MatchFrom(alt, i + 1, text, pos)
         ELSE IF IsNlaRest(e) THEN
            /\ \A k \in pos..Len(text) : LowerTok(text[k]) \notin e
            /\ MatchFrom(alt, i + 1, text, pos)
         ELSE
            /\ pos <= Len(text)
            /\ LowerTok(text[pos]) \in e
            /\ MatchFrom(alt, i + 1, text, pos + 1)

\* re.Pattern.search with re.IGNORECASE: some alternative matches somewhere.
PatternSearch(pattern, text) ==
    \E a \in 1..Len(pattern) : \E p \in 1..Len(text) :
        MatchFrom(pattern[a], 1, text, p)

\* _r(category, pattern, noise=False): one entry of the rule table.
R(cat, pattern, noise) ==
    [category |-> cat, pattern |-> pattern, is_noise |-> noise]

(***************************************************************************)
(* The rule table, in registration order (sens_categorizer.py lines        *)
(* 40-166).  Optional groups and in-word alternations of the source        *)
(* patterns are written out as separate alternatives or word sets.         *)
(***************************************************************************)

P_Trading ==
    << <<{"trading"}, {"statement", "update"}>>,
       <<{"operational"}, {"update", "performance"}>>,
       <<{"festive"}, {"season"}, {"trading"}>> >>

P_Results ==
    << <<{"financial", "interim", "annual"}, {"results"}>>,
       <<{"condensed"}, {"financial"}>>,
       <<{"condensed"}, {"consolidated"}, {"financial"}>>,
       <<{"earnings"}, {"release"}>>,
       <<{"quarterly"}, {"report"}>>,
       <<{"quarterly"}, {"investor"}, {"report"}>>,
       <<{"investor"}, {"report"}>>,
       <<{"results"}, {"for"}, {"the"},
         {"first", "second", "third", "fourth"}, {"quarter"}>>,
       <<{"results"}, {"presentation"}>>,
       <<{"short-form"}, {"announcement"}, ANY, {"results"}>>,
       <<{"q1", "q2", "q3", "q4"}, {"fy2024", "fy2025"}, {"results"}>>,
       <<{"production"}, {"report"}>>,
       <<{"business"}, {"update"}, {"for"}, {"the"}>>,
       <<{"publication"}, {"of"}, ANY, {"results"}>>,
       <<{"publication"}, {"of"}, ANY, {"financial"}, {"statements"}>>,
       <<{"monthly"}, {"factsheet"}>>,
       <<{"monthly"}, {"fact"}, {"sheet"}>>,
       <<{"notice"}, {"of"}, {"availability"}, ANY, {"factsheet"}>> >>

P_Acquisitions ==
    << <<{"acquisition"}, {"of"},
         NLA({"beneficial", "securities", "shares"})>>,
       <<{"acquisition"}, {"of"}, {"the"},
         NLA({"beneficial", "securities", "shares"})>>,
       <<{"proposed"}, {"acquisition"}>>,
       <<{"disposal"}, {"of", "by"}>>,
       <<{"divestment"}>>,
       <<{"general"}, {"offer"}, {"to"}, {"acquire"}>>,
       <<{"purchase"}, {"of"}, NLA({"investec"}), NLAREST({"shares"})>>,
       <<{"voluntary"}, {"announcement"}, ANY,
         {"disposal", "acquisition", "purchase"}>>,
       <<{"earn-in", "earnin"}, {"agreement"}>>,
       <<{"earn"}, {"in"}, {"agreement"}>>,
       <<{"earn"}, {"-"}, {"in"}, {"agreement"}>>,
       <<{"prepayment"}, {"facility"}>>,
       <<{"firm"}, {"intention"}, ANY, {"offer", "acquire", "disposal"}>>,
       <<{"offer"}, {"for"}, ANY, {"by", "from"}, NLA({})>> >>

\* Registered before P_Dealings (source comment, lines 62-64).
P_Buybacks ==
    << <<{"transaction"}, {"in"}, {"own"}, {"shares"}>>,
       <<{"repurchase"}, {"of"}>>,
       <<{"share"}, {"buyback"}>>,
       <<{"treasury"}, {"shares"}>>,
       <<{"confirmation"}, {"of"}, {"treasury"}>>,
       <<{"buy-back", "buyback"}, {"notification", "programme", "program"}>>,
       <<{"repurchase"}, {"programme"}>> >>

P_Dealings ==
    << <<{"dealing", "dealings"}, {"in"}, {"securities"}, {"by"}>>,
       <<{"dealing", "dealings"}, {"in"}, {"securities"}, END>>,
       <<{"transaction", "transactions"}, {"in"}, ANY, {"shares"}>>,
       <<{"transaction", "transactions"}, {"by"}, {"person", "persons"},
         {"discharging"}, {"managerial"}>>,
       <<{"dealing"}, {"in"}, {"securities", "shares"}, {"by"}>>,
       <<{"dealing"}, {"in"}, {"securities"}, END>>,
       <<{"dealing"}, {"in"}, {"shares"}, END>>,
       <<{"dealing"}, {"by"}, {"subsidiary", "director"}>>,
       <<{"share"}, {"incentive", "option"}, ANY,
         {"exercise", "settlement", "transaction"}>>,
       <<{"employee"}, {"share"}, {"plan"}>>,
       <<{"exercise"}, {"of"}, {"options"}>>,
       <<{"settlement"}, {"of"}, {"shares"}, {"in"}, {"terms"}>>,
       <<{"share"}, {"plan", "scheme"}, {"transaction"}>>,
       <<{"disclosure"}, {"of"}, {"management"}, {"transaction"}>>,
       <<{"share"}, {"subdivision"}>>,
       <<{"notification"}, {"of"}, {"securities"}>> >>

P_Board ==
    << <<{"change", "changes"}, {"to"}, {"the"}, {"board"}>>,
       <<{"directorate"}, {"change"}>>,
       <<{"appointment"}, {"of"}, {"director"}>>,
       <<{"appointment"}, {"of"}, {"independent"}, {"director"}>>,
       <<{"appointment"}, {"of"}, {"non-executive"}, {"director"}>>,
       <<{"appointment"}, {"of"}, {"independent"}, {"non-executive"},
         {"director"}>>,
       <<{"retirement"}, {"of"}, {"senior"}, {"executive"}>>,
       <<{"retirement"}, {"of"}, ANY, {"director"}>>,
       <<{"executive"}, {"responsibilities"}>>,
       <<{"management"}, {"arrangements"}>>,
       <<{"board"}, {"committees"}>>,
       <<{"change"}, {"to"}, {"the"}, {"board"}>>,
       <<{"termination"}, {"of"}, {"board"}, {"member"}>> >>

P_Cautionary ==
    << <<{"cautionary"}, {"announcement"}>>,
       <<{"cautionary"}, END>> >>

P_Dividends ==
    << <<{"dividend"}>>,
       <<{"declaration"}, {"of"}, {"dividend"}>>,
       <<{"distribution"}, {"finalisation"}>>,
       <<{"preference"}, {"share"}, {"dividend"}>>,
       <<{"rectification"}, ANY, {"dividend"}>> >>

P_CapitalRaises ==
    << <<{"private"}, {"placement"}>>,
       <<{"rights"}, {"issue"}>>,
       <<{"capital"}, {"raise"}>>,
       <<{"share"}, {"placement"}>>,
       <<{"tap"}, {"issuance"}>> >>

P_Funding ==
    << <<{"credit"}, {"facility", "facilities"}>>,
       <<{"refinancing"}>>,
       <<{"medium"}, {"term"}, {"note"}, {"programme"}>>,
       <<{"note"}, {"programme"}>>,
       <<{"corporate"}, {"facilities"}>>,
       <<{"pricing"}, {"supplement"}>> >>

P_MajorHoldings ==
    << <<{"major"}, {"holding", "holdings"}>>,
       <<{"beneficial"}, {"interest"}>>,
       <<{"change"}, {"in"}, {"beneficial"}>>,
       <<{"disclosure"}, {"of"}, {"acquisition", "increase", "beneficial"}>>,
       <<{"disclosure"}, {"of"}, {"significant"}, {"holding"}>>,
       <<{"notification"}, {"of"}, {"major"}>>,
       <<{"notification"}, {"of"}, {"change"}, {"in"}, {"major"}>>,
       <<{"notification"}, {"of"}, {"change"}, {"in"}, {"a"}, {"major"}>>,
       <<{"total"}, {"voting"}, {"rights"}>>,
       <<{"voting"}, {"rights"}, {"and"}, {"capital"}>>,
       <<{"schedule"}, {"13g", "13d"}>>,
       <<{"acquisition"}, {"of"}, {"securities"}, {"by"}, {"clients"}>> >>

P_Meetings ==
    << <<{"general"}, {"meeting"}>>,
       <<{"circular"}, ANY, {"shareholders"}>>,
       <<{"notice"}, {"of"}, {"general"}, {"meeting"}>>,
       <<{"results"}, {"of"}, {"annual", "extraordinary"}, {"general"},
         {"meeting"}>>,
       <<{"results"}, {"of"}, {"the"}, {"annual", "extraordinary"},
         {"general"}, {"meeting"}>>,
       <<{"withdrawal"}, {"of"}, {"resolutions"}>>,
       <<{"voluntary"}, {"business"}, {"update"}, {"at"}, {"agm"}>> >>

P_CorporateActions ==
    << <<{"suspension"}, {"from"}, {"quotation"}>>,
       <<{"reinstatement"}, {"to"}, {"quotation"}>>,
       <<{"auditor"}, {"appointment", "change"}>>,
       <<{"bbbee"}, {"compliance"}>>,
       <<{"ceo"}, {"letter"}>>,
       <<{"response"}, {"to"}, {"rule"}>>,
       <<{"notice"}, {"to"}, {"affected"}, {"persons"}>>,
       <<{"name"}, {"change"}>>,
       <<{"annual"}, {"financial"}, {"statements"}>>,
       <<{"availability"}, {"of"}, ANY, {"annual"}>> >>

P_Interest ==
    << <<{"interest"}, {"payment", "amount"}>>,
       <<{"notification"}, {"of"}, {"interest"}>>,
       <<{"interest"}, {"rate"}, {"reset"}>>,
       <<{"fixed"}, {"interim"}, {"payment"}>>,
       <<{"interest"}, {"and"}, {"capital"}, {"payment"}>> >>

P_Listing ==
    << <<{"listing"}, {"of"}, {"additional"}>>,
       <<{"additional"}, {"listing"}>>,
       <<{"partial"}, {"de-listing", "delisting"}>>,
       <<{"new"}, {"listing"}>>,
       <<{"new"}, {"financial"}, {"instrument"}, {"listing"}>>,
       <<{"listing"}, {"of"}, {"1", "5000"}>>,
       <<{"listing"}, {"of"}, {"satrix"}>>,
       <<{"new"}, {"listing"}, {"announcement"}>>,
       <<{"partial"}, {"capital"}, {"redemption"}>>,
       <<{"de-listing", "delisting"}, {"of"}, {"instrument"}>>,
       <<{"de-listing", "delisting"}, {"of"}, {"financial"}, {"instrument"}>>,
       <<{"notice"}, {"of"}, {"expiry"}>>,
       <<{"notice"}, {"of"}, {"partial"}, {"redemption"}>>,
       <<{"notification"}, {"of"}, {"partial"}, {"capital"}, {"reduction"}>>,
       <<{"notification"}, {"of"}, {"a"}, {"partial"}, {"capital"},
         {"reduction"}>> >>

P_Etf ==
    << <<{"redemption"}, {"of"}, {"1nvest", "newgold", "etf"}>>,
       <<{"partial"}, {"redemption"}, {"of"}, {"securities"}>>,
       <<{"etf"}, {"securities"}>>,
       <<{"results"}, {"of"}, {"the"}, {"initial"}, {"offer"}>>,
       <<{"cdi"}, {"monthly"}, {"movement"}>>,
       <<{"actively"}, {"managed"}, {"certificate"}>>,
       <<{"early"}, {"termination", "redemption"}>> >>

P_Regulatory ==
    << <<{"form"}, {"8.3", "8-3", "83", "8.k", "8-k", "8k"}>>,
       <<{"tr-1:", "tr1:"}>>,
       <<{"trp121"}>>,
       <<{"section"}, {"122", "45"}>>,
       <<{"notice"}, {"in"}, {"terms"}, {"of"}, {"section"}>>,
       <<{"notification"}, {"in"}, {"terms"}, {"of"}, {"section"}>>,
       <<{"form"}, {"8", "8.", "8-"}, {"announcement", "opd"}>>,
       <<{"form"}, {"8", "8.", "8-"}, {"dealing"}, {"disclosure"}>>,
       <<{"public"}, {"opening"}, {"position"}>>,
       <<{"jse"}, {"contact"}, {"list"}>>,
       <<{"notice"}, {"of"}, {"availability"}, ANY, {"quarterly"}>>,
       <<{"notice"}, {"of"}, {"availability"}, ANY, {"portfolio"},
         {"composition"}>>,
       <<{"publication"}, {"of"}, {"information"}, {"by"}, {"means"}, {"of"},
         {"supplement"}>> >>

P_Amendments ==
    << <<{"amendment"}>>,
       <<{"correction"}>>,
       <<{"cancellation"}, {"of"}, {"s1", "s2"}>>,
       <<{"late"}, {"correction", "announcement"}>> >>

P_DebtProgramme ==
    << <<{"amendment", "amendments"}, {"to"}, ANY, {"note", "bond"},
         {"programme"}>>,
       <<{"amended"}, {"and"}, {"restated"}, ANY, {"pricing"}>>,
       <<{"notice"}, {"requesting"}, {"written"}, {"consent"}, ANY,
         {"holders"}>>,
       <<{"final"}, {"redemption"}, {"announcement"}>>,
       <<{"financial"}, {"instrument"}, {"partial"},
         {"de-listing", "delisting"}>>,
       <<{"financial"}, {"instrument"}, {"final"}, {"redemption"}>>,
       <<{"notice"}, {"of"}, {"partial"}, {"redemption"}>>,
       <<{"issue"}, {"of"}, {"zar"}, ANY, {"securities", "notes"}, {"due"}>> >>

\* The table with the director-dealing rule registered before the buyback rule.
CATEGORY_RULES_dealings_first ==
    << R("Trading Statements & Updates", P_Trading, FALSE),
       R("Financial Results", P_Results, FALSE),
       R("Acquisitions & Disposals", P_Acquisitions, FALSE),
       R("Dealings by Directors", P_Dealings, FALSE),
       R("Share Buybacks & Treasury", P_Buybacks, FALSE),
       R("Board & Management Changes", P_Board, FALSE),
       R("Cautionary Announcements", P_Cautionary, FALSE),
       R("Dividends & Distributions", P_Dividends, FALSE),
       R("Capital Raises & Placements", P_CapitalRaises, FALSE),
       R("Funding & Debt", P_Funding, FALSE),
       R("Major Holdings Disclosure", P_MajorHoldings, FALSE),
       R("AGM & Shareholder Meetings", P_Meetings, FALSE),
       R("Corporate Actions", P_CorporateActions, FALSE),
       R("Interest Payments", P_Interest, TRUE),
       R("Listing / Delisting of Securities", P_Listing, TRUE),
       R("ETF / Fund Administration", P_Etf, TRUE),
       R("Regulatory Forms & Filings", P_Regulatory, TRUE),
       R("Amendments & Corrections", P_Amendments, TRUE),
       R("Debt Programme Admin", P_DebtProgramme, TRUE) >>

CATEGORY_RULES ==
    << R("Trading Statements & Updates", P_Trading, FALSE),
       R("Financial Results", P_Results, FALSE),
       R("Acquisitions & Disposals", P_Acquisitions, FALSE),
       R("Share Buybacks & Treasury", P_Buybacks, FALSE),
       R("Dealings by Directors", P_Dealings, FALSE),
       R("Board & Management Changes", P_Board, FALSE),
       R("Cautionary Announcements", P_Cautionary, FALSE),
       R("Dividends & Distributions", P_Dividends, FALSE),
       R("Capital Raises & Placements", P_CapitalRaises, FALSE),
       R("Funding & Debt", P_Funding, FALSE),
       R("Major Holdings Disclosure", P_MajorHoldings, FALSE),
       R("AGM & Shareholder Meetings", P_Meetings, FALSE),
       R("Corporate Actions", P_CorporateActions, FALSE),
       R("Interest Payments", P_Interest, TRUE),
       R("Listing / Delisting of Securities", P_Listing, TRUE),
       R("ETF / Fund Administration", P_Etf, TRUE),
       R("Regulatory Forms & Filings", P_Regulatory, TRUE),
       R("Amendments & Corrections", P_Amendments, TRUE),
       R("Debt Programme Admin", P_DebtProgramme, TRUE) >>

FALLBACK == <<"Other / Uncategorised", FALSE>>

\* `if not title`: None and the empty string are both falsy.
Falsy(t) == t.null \/ t.text = <<>>

\* The for loop of categorize_title from rule i on: the index of the first
\* rule whose pattern matches, or 0 when the loop runs out.
RECURSIVE FirstMatchFrom(_, _, _)
FirstMatchFrom(rules, text, i) ==
    IF i > Len(rules) THEN 0
    ELSE IF PatternSearch(rules[i].pattern, text) THEN i
    ELSE FirstMatchFrom(rules, text, i + 1)

\* A scan that keeps going and lets a later rule overwrite the answer.
RECURSIVE LastMatchFrom(_, _, _)
LastMatchFrom(rules, text, i) ==
    IF i < 1 THEN 0
    ELSE IF PatternSearch(rules[i].pattern, text) THEN i
    ELSE LastMatchFrom(rules, text, i - 1)

categorize_title_last_wins(t) ==
    IF Falsy(t) THEN FALLBACK
    ELSE LET i == LastMatchFrom(CATEGORY_RULES, t.text, Len(CATEGORY_RULES)) IN
         IF i = 0 THEN FALLBACK
         ELSE <<CATEGORY_RULES[i].category, CATEGORY_RULES[i].is_noise>>

\* A fallback that reports the title as noise.
categorize_title_noisy_fallback(t) ==
    LET i == IF Falsy(t) THEN 0 ELSE FirstMatchFrom(CATEGORY_RULES, t.text, 1) IN
    IF i = 0 THEN <<"Other / Uncategorised", TRUE>>
    ELSE <<CATEGORY_RULES[i].category, CATEGORY_RULES[i].is_noise>>

categorize_title(t) ==
    IF Falsy(t) THEN FALLBACK
    ELSE LET i == FirstMatchFrom(CATEGORY_RULES, t.text, 1) IN
         IF i = 0 THEN FALLBACK
         ELSE <<CATEGORY_RULES[i].category, CATEGORY_RULES[i].is_noise>>

\* How many times the loop of categorize_title calls pattern.search.
SearchCalls(t) ==
    IF Falsy(t) THEN 0
    ELSE LET i == FirstMatchFrom(CATEGORY_RULES, t.text, 1) IN
         IF i = 0 THEN Len(CATEGORY_RULES) ELSE i

(***************************************************************************)
(* Titles: every sequence of at most MaxTitleWords tokens of Vocab, the    *)
(* titles of the source comments and documents, the empty string and None. *)
(***************************************************************************)
MaxTitleWords == 3

Vocab == {"Transaction", "in", "own", "shares", "treasury", "dealing",
          "securities", "divestment"}

RECURSIVE SeqsUpTo(_, _)
SeqsUpTo(S, n) ==
    IF n = 0 THEN {<<>>}
    ELSE LET shorter == SeqsUpTo(S, n - 1) IN
         shorter \cup {Append(s, x) : s \in shorter, x \in S}

NamedTitles ==
    { <<"Transaction", "in", "own", "shares">>,
      <<"TRANSACTION", "in", "treasury", "Shares">>,
      <<"Voluntary", "Announcement", "-", "disposal", "of", "subsidiary">>,
      <<"Trading", "statement", "and", "transaction", "in", "own", "shares">>,
      <<"Change", "of", "company", "secretary">>,
      <<"Dividend", "declaration">>,
      <<"Amendment", "to", "the", "note", "programme">>,
      <<"Renewal", "of", "cautionary">> }

Titles ==
    {[null |-> TRUE, text |-> <<>>]} \cup
    {[null |-> FALSE, text |-> s] : s \in SeqsUpTo(Vocab, MaxTitleWords) \cup NamedTitles}

NoTitle == [null |-> TRUE, text |-> <<>>]

(***************************************************************************)
(* Categorizer: a caller hands categorize_title a title and reads the      *)
(* pair it returns, then comes back with the next title.                   *)
(***************************************************************************)
CatInit ==
    /\ title \in Titles
    /\ category = <<>>
    /\ rules_evaluated = 0

CategorizeTitle ==
    /\ category = <<>>
    /\ category' = categorize_title(title)
    /\ rules_evaluated' = SearchCalls(title)
    /\ UNCHANGED title
    /\ UNCHANGED <<ocrVars, parseVars, companyVars, auxVars>>

NextTitle ==
    /\ category # <<>>
    /\ \E s \in NamedTitles \cup {<<>>} :
          title' = [null |-> FALSE, text |-> s]
    /\ category' = <<>>
    /\ rules_evaluated' = 0
    /\ UNCHANGED <<ocrVars, parseVars, companyVars, auxVars>>

InitCat == CatInit /\ OcrIdle /\ ParseIdle /\ CompanyIdle /\ AuxIdle

NextCat == CategorizeTitle \/ NextTitle

SpecCat == InitCat /\ [][NextCat]_vars

(***************************************************************************)
(* Claims about the categorizer (checked under SpecCat).                   *)
(***************************************************************************)
RuleMatches(i) == PatternSearch(CATEGORY_RULES[i].pattern, title.text)

RulePair(i) == <<CATEGORY_RULES[i].category, CATEGORY_RULES[i].is_noise>>

Returned == category # <<>>

\* C1: the pair categorize_title returns is that of the earliest-registered
\* rule whose pattern matches the title; a rule registered after a matching
\* rule never decides the title.
C1_FirstMatchWins ==
    (Returned /\ ~title.null) =>
        \A i \in 1..Len(CATEGORY_RULES) :
            (RuleMatches(i) /\ \A j \in 1..(i - 1) : ~RuleMatches(j))
                => category = RulePair(i)

\* A title that two rules with different labels match got the earlier one's.
C1_Witness ==
    /\ Returned /\ ~title.null
    /\ \E i, j \in 1..Len(CATEGORY_RULES) :
          /\ i < j /\ RuleMatches(i) /\ RuleMatches(j)
          /\ RulePair(i) # RulePair(j)
          /\ \A k \in 1..(i - 1) : ~RuleMatches(k)
          /\ category = RulePair(i)

MatchesBuybackAndDealing ==
    /\ ~title.null
    /\ PatternSearch(P_Buybacks, title.text)
    /\ PatternSearch(P_Dealings, title.text)

MatchesBeforeBuyback ==
    \/ PatternSearch(P_Trading, title.text)
    \/ PatternSearch(P_Results, title.text)
    \/ PatternSearch(P_Acquisitions, title.text)

\* C2 as stated: a title that matches both a buyback pattern and a
\* director-dealing pattern is always classified "Share Buybacks & Treasury".
C2_Original ==
    (Returned /\ MatchesBuybackAndDealing) =>
        category[1] = "Share Buybacks & Treasury"

\* C2 as amended: such a title is never classified "Dealings by Directors",
\* and it is classified "Share Buybacks & Treasury" unless one of the three
\* rules registered before the buyback rule also matches it.
C2_BuybackBeforeDealing ==
    (Returned /\ MatchesBuybackAndDealing) =>
        /\ category[1] # "Dealings by Directors"
        /\ ~MatchesBeforeBuyback => category[1] = "Share Buybacks & Treasury"

\* "Transaction in own shares" was classified as a buyback.
C2_Witness ==
    /\ title.text = <<"Transaction", "in", "own", "shares">>
    /\ MatchesBuybackAndDealing
    /\ category = <<"Share Buybacks & Treasury", FALSE>>

NoRuleMatches == \A i \in 1..Len(CATEGORY_RULES) : ~RuleMatches(i)

\* C10 as stated: a title no rule matches, and an empty or null title, is
\* classified as ("Uncategorised", false); the empty or null title without
\* any rule being evaluated.
C10_Original ==
    Returned =>
        /\ (Falsy(title) \/ NoRuleMatches) => category = <<"Uncategorised", FALSE>>
        /\ Falsy(title) => rules_evaluated = 0

\* C10 as amended: the reserved label is "Other / Uncategorised" (noise
\* false); an empty or null title gets it without any rule being evaluated.
C10_Fallback ==
    Returned =>
        /\ (Falsy(title) \/ NoRuleMatches)
              => category = <<"Other / Uncategorised", FALSE>>
        /\ Falsy(title) => rules_evaluated = 0

\* A null title returned the fallback with no pattern searched.
C10_Witness ==
    /\ title.null
    /\ Returned
    /\ category[2] = FALSE
    /\ rules_evaluated = 0

(***************************************************************************)
(* OCR extractor and quality scorer (pdf_parser.py lines 117-250).         *)
(* A text is a sequence of characters.  The recognised text of a page is   *)
(* written as segments, each a word repeated some number of times, the     *)
(* words separated by single blanks, with or without a final newline.      *)
(***************************************************************************)
Letters == {"a", "b", "c", "d", "n"}
Digits  == {"1", "2", "3", "4", "5"}
Spaces  == {" ", "\n"}
\* the characters the first artifact pattern lets through besides \w and \s
Allowed == {".", ",", ";", ":", "!", "?", "-", "(", ")", "%", "$"}

IsLetter(c)  == c \in Letters
IsDigit(c)   == c \in Digits
IsSpace(c)   == c \in Spaces
IsWordCh(c)  == IsLetter(c) \/ IsDigit(c)
IsUnusual(c) == ~IsWordCh(c) /\ ~IsSpace(c) /\ c \notin Allowed

Min(S) == CHOOSE x \in S : \A y \in S : x <= y
Max(S) == CHOOSE x \in S : \A y \in S : x >= y

\* len(re.findall(r'[^\w\s\.,;:!?\-\(\)%\$..]', text)), .. the pound and euro signs
UnusualCount(text) ==
    Cardinality({i \in 1..Len(text) : IsUnusual(text[i])})

\* r'\b[a-zA-Z]{1}\s[a-zA-Z]{1}\s' matches at position i
BrokenWordAt(text, i) ==
    /\ i + 3 <= Len(text)
    /\ IsLetter(text[i])
    /\ (i = 1 \/ ~IsWordCh(text[i - 1]))
    /\ IsSpace(text[i + 1])
    /\ IsLetter(text[i + 2])
    /\ IsSpace(text[i + 3])

\* re.findall scans left to right and resumes after each match
RECURSIVE BrokenWordCount(_, _)
BrokenWordCount(text, from) ==
    LET at == {i \in from..Len(text) : BrokenWordAt(text, i)} IN
    IF at = {} THEN 0
    ELSE 1 + BrokenWordCount(text, Min(at) + 4)

\* len(re.findall(r'\d{5,}', text)): the greedy match takes a whole run of
\* digits, so every maximal run of five or more digits is one match
LongNumberCount(text) ==
    Cardinality({i \in 1..Len(text) :
        /\ IsDigit(text[i])
        /\ (i = 1 \/ ~IsDigit(text[i - 1]))
        /\ i + 4 <= Len(text)
        /\ \A k \in 1..4 : IsDigit(text[i + k])})

ArtifactCount(text) ==
    UnusualCount(text) + BrokenWordCount(text, 1) + LongNumberCount(text)

\* len(text.split())
WordCount(text) ==
    Cardinality({i \in 1..Len(text) :
        ~IsSpace(text[i]) /\ (i = 1 \/ IsSpace(text[i - 1]))})

\* sum(len(word) for word in text.split())
WordLenSum(text) ==
    Cardinality({i \in 1..Len(text) : ~IsSpace(text[i])})

\* len(text.strip())
StripLen(text) ==
    LET ink == {i \in 1..Len(text) : ~IsSpace(text[i])} IN
    IF ink = {} THEN 0 ELSE Max(ink) - Min(ink) + 1

\* The scorer with the artifact check turned into "at least 10%".
assess_ocr_quality_strict(text, char_count) ==
    IF char_count < 100 THEN "poor"
    ELSE IF ArtifactCount(text) * 10 >= char_count THEN "poor"
    ELSE IF WordCount(text) < 20 THEN "poor"
    ELSE IF \/ WordLenSum(text) < 2 * WordCount(text)
            \/ WordLenSum(text) > 15 * WordCount(text) THEN "poor"
    ELSE "good"

\* _assess_ocr_quality(text, char_count).  The comparisons are those of the
\* source cleared of the division and of the factor 0.1: for integers,
\* a > c * 0.1 is 10 * a > c, and s / n < 2 is s < 2 * n.
assess_ocr_quality(text, char_count) ==
    IF char_count < 100 THEN "poor"
    ELSE IF ArtifactCount(text) * 10 > char_count THEN "poor"
    ELSE IF WordCount(text) < 20 THEN "poor"
    ELSE IF \/ WordLenSum(text) < 2 * WordCount(text)
            \/ WordLenSum(text) > 15 * WordCount(text) THEN "poor"
    ELSE "good"

\* w repeated k times, separated by single blanks
Repeat(w, k) ==
    IF k = 0 THEN <<>>
    ELSE [i \in 1..(k * (Len(w) + 1) - 1) |->
             IF i % (Len(w) + 1) = 0 THEN " " ELSE w[i % (Len(w) + 1)]]

RECURSIVE SegsText(_, _)
SegsText(segs, i) ==
    IF i > Len(segs) THEN <<>>
    ELSE IF i = Len(segs) THEN Repeat(segs[i].word, segs[i].times)
    ELSE Repeat(segs[i].word, segs[i].times) \o <<" ">> \o SegsText(segs, i + 1)

\* pytesseract.image_to_string(page, ...)
PageText(p) == SegsText(p.segs, 1) \o (IF p.nl THEN <<"\n">> ELSE <<>>)

\* "\\n\\n".join(all_text): the separator is a backslash, n, backslash, n
RECURSIVE FullText(_, _)
FullText(ps, i) ==
    IF i > Len(ps) THEN <<>>
    ELSE IF i = Len(ps) THEN PageText(ps[i])
    ELSE PageText(ps[i]) \o <<"\\", "n", "\\", "n">> \o FullText(ps, i + 1)

\* total_chars += len(text.strip()), page by page
RECURSIVE TotalChars(_, _)
TotalChars(ps, i) ==
    IF i > Len(ps) THEN 0
    ELSE StripLen(PageText(ps[i])) + TotalChars(ps, i + 1)

(***************************************************************************)
(* PDFs: the one-page documents of at most MaxSegs segments over Words and *)
(* Times, the documents of at most MaxPages pages of SmallPages, and the   *)
(* documents on the thresholds of the scorer.                              *)
(***************************************************************************)
MaxSegs == 2
MaxPages == 2

W_a    == <<"a">>
W_abc  == <<"a", "b", "c">>
W_abcd == <<"a", "b", "c", "d">>
W_15   == [i \in 1..15 |-> "a"]
W_16   == [i \in 1..16 |-> "a"]
W_dot  == <<".">>
W_hash == <<"#">>
W_abh  == <<"a", "b", "#">>
W_num  == <<"1", "2", "3", "4", "5">>

Words == {W_a, W_abcd, W_16, W_dot, W_hash, W_num}
Times == {1, 20}

Seg(w, k) == [word |-> w, times |-> k]
Page(segs, nl) == [segs |-> segs, nl |-> nl]

Segs == {Seg(w, k) : w \in Words, k \in Times}

OnePageDocs ==
    {<<Page(s, FALSE)>> : s \in SeqsUpTo(Segs, MaxSegs) \ {<<>>}}

SmallPages ==
    {Page(<<Seg(W_abcd, 20)>>, TRUE), Page(<<Seg(W_hash, 1)>>, FALSE),
     Page(<<Seg(W_a, 2)>>, TRUE)}

ManyPageDocs == SeqsUpTo(SmallPages, MaxPages)

NamedDocs ==
    { <<Page(<<Seg(W_abcd, 9), Seg(W_num, 1)>>, FALSE)>>,
      <<Page(<<Seg(W_abcd, 19), Seg(W_num, 1)>>, FALSE)>>,
      <<Page(<<Seg(W_abcd, 101)>>, TRUE)>>,
      <<Page(<<Seg(W_abh, 14), Seg(W_abcd, 17)>>, FALSE)>>,
      <<Page(<<Seg(W_abh, 15), Seg(W_abcd, 17)>>, FALSE)>>,
      <<Page(<<Seg(W_abc, 20), Seg(W_dot, 20)>>, FALSE)>>,
      <<Page(<<Seg(W_abc, 19), Seg(W_dot, 20)>>, FALSE)>>,
      <<Page(<<Seg(W_15, 20)>>, FALSE)>>,
      <<Page(<<Seg(W_15, 19)>>, FALSE)>>,
      <<Page(<<Seg(W_15, 19), Seg(W_16, 1)>>, FALSE)>> }

Docs == OnePageDocs \cup ManyPageDocs \cup NamedDocs

(***************************************************************************)
(* OCR extractor: _extract_with_ocr reads the pages, scores the text and   *)
(* returns; any exception on the way returns ("", "poor").                 *)
(***************************************************************************)
OcrInit ==
    /\ pages \in Docs
    /\ total_chars = 0
    /\ quality = ""
    /\ ocr_raised = FALSE

ExtractWithOcr ==
    /\ quality = ""
    /\ \/ /\ total_chars' = TotalChars(pages, 1)
          /\ quality' = assess_ocr_quality(FullText(pages, 1), TotalChars(pages, 1))
          /\ ocr_raised' = FALSE
       \/ /\ total_chars' = 0
          /\ quality' = "poor"
          /\ ocr_raised' = TRUE
    /\ UNCHANGED pages
    /\ UNCHANGED <<catVars, parseVars, companyVars, auxVars>>

NextPdf ==
    /\ quality # ""
    /\ pages' \in NamedDocs \cup {<<>>}
    /\ total_chars' = 0
    /\ quality' = ""
    /\ ocr_raised' = FALSE
    /\ UNCHANGED <<catVars, parseVars, companyVars, auxVars>>

InitOcr == OcrInit /\ CatIdle /\ ParseIdle /\ CompanyIdle /\ AuxIdle

NextOcr == ExtractWithOcr \/ NextPdf

SpecOcr == InitOcr /\ [][NextOcr]_vars

(***************************************************************************)
(* Claims about the OCR quality scorer (checked under SpecOcr).            *)
(***************************************************************************)
Scored == quality # "" /\ ~ocr_raised

Artifacts == ArtifactCount(FullText(pages, 1))

NumWords == WordCount(FullText(pages, 1))

SumWordLen == WordLenSum(FullText(pages, 1))

AllFourChecksPass ==
    /\ total_chars >= 100
    /\ Artifacts * 10 <= total_chars
    /\ NumWords >= 20
    /\ 2 * NumWords <= SumWordLen
    /\ SumWordLen <= 15 * NumWords

\* C6: the scorer returns "good" exactly when the character count is at
\* least 100, the artifacts are at most 10% of the character count, there
\* are at least 20 words and the average word length lies in [2, 15]; it
\* returns "poor" in every other case, so for a 50-character text and for
\* a text whose artifacts exceed 10% of its characters.
C6_GoodIffAllChecks ==
    Scored =>
        /\ quality \in {"good", "poor"}
        /\ quality = "good" <=> AllFourChecksPass
        /\ total_chars = 50 => quality = "poor"
        /\ Artifacts * 10 > total_chars => quality = "poor"

\* A text whose artifacts are exactly 10% of its characters was scored good.
C6_Witness ==
    /\ Scored
    /\ total_chars >= 100
    /\ Artifacts * 10 = total_chars
    /\ Artifacts > 0
    /\ quality = "good"

(***************************************************************************)
(* PDF parsing (pdf_parser.py lines 65-115 and 252-445) and its callers    *)
(* (main.py lines 72-121, 382-476, 683-730) over the sens_announcements    *)
(* table (models.py lines 314-395).                                        *)
(*                                                                         *)
(* Texts are named by what produced them; TextLen gives their length.      *)
(***************************************************************************)
TextLen(s) ==
    CASE s = ""             -> 0
      [] s = " "            -> 1
      [] s = "ocr short"    -> 40
      [] s = "ocr text"     -> 500
      [] s = "layer text"   -> 400
      [] s = "cleaned text" -> 300
      [] s = " cleaned text " -> 302
      [] s = "summary"      -> 200
      [] s = " summary "    -> 202
      [] OTHER              -> 0

\* str.strip()
Strip(s) ==
    CASE s = " "              -> ""
      [] s = " cleaned text " -> "cleaned text"
      [] s = " summary "      -> "summary"
      [] OTHER                -> s

\* What _extract_with_ocr can return: ("", "poor") when it caught an
\* exception or recognised nothing, a poor text, or a good text; a good
\* text has at least 100 characters.
OcrReturns ==
    { <<"", "poor">>, <<" ", "poor">>, <<"ocr short", "poor">>,
      <<"ocr text", "poor">>, <<"ocr text", "good">> }

\* What _extract_with_pypdf can return: a stripped text, or "" when both
\* libraries fail or find no text.
PypdfReturns == {"", "layer text"}

\* What a provider call can do: raise, or answer with a text.
EXC == "<exception>"
ParseProviderAnswers == {EXC, " ", " cleaned text "}
SummaryProviderAnswers == {EXC, " ", " summary "}

\* Where an exception can arise in the try block of parse_sens_pdf outside
\* the handlers of the helpers: the availability checks are made before
\* the try of _extract_with_ai and of _generate_summary.
UnexpectedAt == {"nowhere", "_parse_ai_available", "_summary_ai_available"}

\* One attempt's environment.
Envs ==
    [ ocr : OcrReturns,
      parse_ai_available : BOOLEAN,
      pypdf : PypdfReturns,
      parse_answer : ParseProviderAnswers,
      summary_ai_available : BOOLEAN,
      summary_answer : SummaryProviderAnswers,
      unexpected : UnexpectedAt ]

\* _extract_with_ai(pdf_path, ocr_text)
extract_with_ai(ocr_text, e) ==
    IF ~e.parse_ai_available THEN ocr_text
    ELSE LET needs_layer == ocr_text = "" \/ TextLen(Strip(ocr_text)) < 50
             text == IF needs_layer /\ e.pypdf # "" THEN e.pypdf ELSE ocr_text
         IN  IF needs_layer /\ e.pypdf = "" THEN ""
             ELSE IF e.parse_answer = EXC THEN text
             ELSE Strip(e.parse_answer)

\* _generate_summary with the exception of the provider let through
generate_summary_without_handler(content, e) ==
    IF ~e.summary_ai_available THEN ""
    ELSE IF e.summary_answer = EXC THEN EXC
    ELSE Strip(e.summary_answer)

\* _generate_summary(content, announcement)
generate_summary(content, e) ==
    IF ~e.summary_ai_available THEN ""
    ELSE IF e.summary_answer = EXC THEN ""
    ELSE Strip(e.summary_answer)

\* SensAnnouncement(sens_number=..., local_pdf_path=...): the parse fields
\* take the defaults of the dataclass (models.py lines 45-49).
NewAnnouncement(f, path) ==
    [ sens_number |-> f, local_pdf_path |-> path, pdf_content |-> "",
      ai_summary |-> "", parse_method |-> "", parse_status |-> "pending" ]

\* The body of the try statement of parse_sens_pdf up to the point where
\* it ends or an exception leaves it, with the summary made for any content.
try_block_unguarded(a, e) ==
    LET good == e.ocr[2] = "good"
        content == IF good THEN e.ocr[1] ELSE extract_with_ai(e.ocr[1], e)
        a2 == [a EXCEPT !.pdf_content = content,
                        !.parse_method = IF good THEN "ocr" ELSE "ai"]
    IN  IF ~good /\ e.unexpected = "_parse_ai_available"
        THEN [ann |-> a, exc |-> TRUE]
        ELSE IF e.unexpected = "_summary_ai_available"
        THEN [ann |-> a2, exc |-> TRUE]
        ELSE [ann |-> [a2 EXCEPT !.ai_summary = generate_summary(content, e),
                                 !.parse_status = "completed"],
              exc |-> FALSE]

\* The body of the try statement of parse_sens_pdf (lines 81-107) up to the
\* point where it ends or an exception leaves it.
try_block(a, e) ==
    LET good == e.ocr[2] = "good"
        content == IF good THEN e.ocr[1] ELSE extract_with_ai(e.ocr[1], e)
        a2 == [a EXCEPT !.pdf_content = content,
                        !.parse_method = IF good THEN "ocr" ELSE "ai"]
    IN  IF ~good /\ e.unexpected = "_parse_ai_available"
        THEN [ann |-> a, exc |-> TRUE]
        ELSE IF content # ""
        THEN IF e.unexpected = "_summary_ai_available"
             THEN [ann |-> a2, exc |-> TRUE]
             ELSE [ann |-> [a2 EXCEPT !.ai_summary = generate_summary(content, e),
                                      !.parse_status = "completed"],
                   exc |-> FALSE]
        ELSE [ann |-> [a2 EXCEPT !.parse_status = "failed"], exc |-> FALSE]

\* The try statement without its handler: the exception leaves parse_sens_pdf.
parse_stages_no_handler(a, e) ==
    LET r == try_block(a, e) IN
    [ann |-> r.ann, raised |-> r.exc]

\* The try statement of parse_sens_pdf with its `except Exception` handler
\* (lines 109-113) and the return.
parse_stages(a, e) ==
    LET r == try_block(a, e) IN
    IF r.exc
    THEN [ann |-> [r.ann EXCEPT !.parse_status = "failed",
                                !.parse_method = "error"],
          raised |-> FALSE]
    ELSE [ann |-> r.ann, raised |-> FALSE]

(***************************************************************************)
(* The sens_announcements table: a row per filing, NoRow before the        *)
(* filing is scraped.                                                      *)
(***************************************************************************)
\* update_sens_parsing: UPDATE ... WHERE sens_number = ?
update_sens_parsing(table, a) ==
    IF table[a.sens_number] = NoRow THEN table
    ELSE [table EXCEPT ![a.sens_number] =
            [@ EXCEPT !.pdf_content = a.pdf_content,
                      !.ai_summary = a.ai_summary,
                      !.parse_method = a.parse_method,
                      !.parse_status = a.parse_status]]

\* The query of get_unparsed_sens without its parse_status condition.
get_unparsed_sens_any_status(table) ==
    {table[f] : f \in {g \in Filings :
        table[g] # NoRow /\ table[g].local_pdf_path # ""}}

\* get_unparsed_sens: WHERE parse_status = 'pending' AND local_pdf_path != ''
\* (LIMIT 10 is above MaxFilings); each row becomes an announcement object.
get_unparsed_sens(table) ==
    {table[f] : f \in {g \in Filings :
        /\ table[g] # NoRow
        /\ table[g].parse_status = "pending"
        /\ table[g].local_pdf_path # ""}}

\* scrape_daily_announcements saves the announcements that are not in the
\* table yet (sens_exists, add_sens_announcement) and returns them.
save_new(table, new) ==
    [f \in Filings |->
        IF \E a \in new : a.sens_number = f
        THEN CHOOSE a \in new : a.sens_number = f
        ELSE table[f]]

Paths == {"", "sens.pdf"}

(***************************************************************************)
(* Two processes work on the table: the scheduler (scheduled_scrape; the   *)
(* scrape and initial-scrape commands run the same loop) and the           *)
(* parse-pdfs command (parse_unparsed_pdfs).  Each takes the announcements *)
(* of its run one at a time through parse_sens_pdf and saves the result.   *)
(***************************************************************************)
ScrapeDaily ==
    /\ pc["scheduler"] = "idle"
    /\ announcements["scheduler"] = {}
    /\ \E fs \in SUBSET {f \in Filings : sens_announcements[f] = NoRow} :
       \E path \in [fs -> Paths] :
          LET new == {NewAnnouncement(f, path[f]) : f \in fs} IN
          /\ sens_announcements' = save_new(sens_announcements, new)
          /\ announcements' = [announcements EXCEPT !["scheduler"] = new]
    /\ UNCHANGED <<pc, announcement, raised>>
    /\ UNCHANGED <<catVars, ocrVars, companyVars, auxVars>>

ParseUnparsedPdfs ==
    /\ pc["parse-pdfs"] = "idle"
    /\ announcements["parse-pdfs"] = {}
    /\ announcements' = [announcements EXCEPT
            !["parse-pdfs"] = get_unparsed_sens(sens_announcements)]
    /\ UNCHANGED <<sens_announcements, pc, announcement, raised>>
    /\ UNCHANGED <<catVars, ocrVars, companyVars, auxVars>>

\* The loop of a run takes the next announcement and calls parse_sens_pdf,
\* which checks the file and moves the record to "processing" (lines 75-83).
ParseSensPdfEntry(p) ==
    /\ pc[p] = "idle"
    /\ \E a \in announcements[p] : \E exists \in BOOLEAN :
          /\ announcements' = [announcements EXCEPT ![p] = @ \ {a}]
          /\ IF a.local_pdf_path = "" \/ ~exists
             THEN /\ announcement' = [announcement EXCEPT ![p] =
                         [a EXCEPT !.parse_status = "failed",
                                   !.parse_method = "no_file"]]
                  /\ pc' = [pc EXCEPT ![p] = "returned"]
             ELSE /\ announcement' = [announcement EXCEPT ![p] =
                         [a EXCEPT !.parse_status = "processing"]]
                  /\ pc' = [pc EXCEPT ![p] = "try"]
    /\ UNCHANGED <<sens_announcements, raised>>
    /\ UNCHANGED <<catVars, ocrVars, companyVars, auxVars>>

\* parse_sens_pdf, lines 85-115: the three stages, the handler, the return
ParseSensPdfStages(p) ==
    /\ pc[p] = "try"
    /\ \E r \in {parse_stages(announcement[p], e) : e \in Envs} :
          /\ announcement' = [announcement EXCEPT ![p] = r.ann]
          /\ raised' = [raised EXCEPT ![p] = r.raised]
    /\ pc' = [pc EXCEPT ![p] = "returned"]
    /\ UNCHANGED <<sens_announcements, announcements>>
    /\ UNCHANGED <<catVars, ocrVars, companyVars, auxVars>>

\* scheduled_scrape, lines 85-93: the result is saved when it has a summary
SchedulerSave ==
    /\ pc["scheduler"] = "returned"
    /\ sens_announcements' =
          IF ~raised["scheduler"] /\ announcement["scheduler"].ai_summary # ""
          THEN update_sens_parsing(sens_announcements, announcement["scheduler"])
          ELSE sens_announcements
    /\ announcement' = [announcement EXCEPT !["scheduler"] = NoAnn]
    /\ raised' = [raised EXCEPT !["scheduler"] = FALSE]
    /\ pc' = [pc EXCEPT !["scheduler"] = "idle"]
    /\ UNCHANGED announcements
    /\ UNCHANGED <<catVars, ocrVars, companyVars, auxVars>>

\* parse_unparsed_pdfs, lines 706-722: the result is always saved
ParsePdfsSave ==
    /\ pc["parse-pdfs"] = "returned"
    /\ sens_announcements' =
          IF ~raised["parse-pdfs"]
          THEN update_sens_parsing(sens_announcements, announcement["parse-pdfs"])
          ELSE sens_announcements
    /\ announcement' = [announcement EXCEPT !["parse-pdfs"] = NoAnn]
    /\ raised' = [raised EXCEPT !["parse-pdfs"] = FALSE]
    /\ pc' = [pc EXCEPT !["parse-pdfs"] = "idle"]
    /\ UNCHANGED announcements
    /\ UNCHANGED <<catVars, ocrVars, companyVars, auxVars>>

InitParse == ParseIdle /\ CatIdle /\ OcrIdle /\ CompanyIdle /\ AuxIdle

NextParse ==
    \/ ScrapeDaily
    \/ ParseUnparsedPdfs
    \/ \E p \in Procs : ParseSensPdfEntry(p)
    \/ \E p \in Procs : ParseSensPdfStages(p)
    \/ SchedulerSave
    \/ ParsePdfsSave

SpecParse == InitParse /\ [][NextParse]_vars

(***************************************************************************)
(* Claims about PDF parsing (checked under SpecParse).                     *)
(***************************************************************************)
\* C3: parse_sens_pdf never raises: whatever the OCR, the text-layer
\* extraction, the AI clients and the providers do, it returns the
\* announcement, and on return the status is completed or failed, never
\* pending or processing.
C3_ParseNeverRaises ==
    \A p \in Procs :
        pc[p] = "returned" =>
            /\ ~raised[p]
            /\ announcement[p] # NoAnn
            /\ announcement[p].parse_status \in {"completed", "failed"}

\* parse_sens_pdf returned after the handler of its try statement caught
\* an exception.
C3_Witness ==
    \E p \in Procs :
        /\ pc[p] = "returned"
        /\ ~raised[p]
        /\ announcement[p].parse_method = "error"
        /\ announcement[p].parse_status = "failed"

SummaryOnlyWithText(a) == a.ai_summary # "" => a.pdf_content # ""

\* C4: in every reachable state of an announcement record (the row of the
\* table, the object a process parses, the objects waiting in a run), the
\* summary is non-empty only if the extracted text is non-empty.
C4_SummaryOnlyWithText ==
    /\ \A f \in Filings :
          sens_announcements[f] # NoRow => SummaryOnlyWithText(sens_announcements[f])
    /\ \A p \in Procs :
          /\ announcement[p] # NoAnn => SummaryOnlyWithText(announcement[p])
          /\ \A a \in announcements[p] : SummaryOnlyWithText(a)

\* A second attempt on a record whose row already carries a summary has
\* failed with no text, and is about to be saved over the row.
C4_Witness ==
    /\ pc["parse-pdfs"] = "returned"
    /\ announcement["parse-pdfs"].parse_status = "failed"
    /\ announcement["parse-pdfs"].pdf_content = ""
    /\ announcement["parse-pdfs"].parse_method = "ai"
    /\ sens_announcements[announcement["parse-pdfs"].sens_number].ai_summary # ""

Rank(status) ==
    CASE status = "pending"    -> 0
      [] status = "processing" -> 1
      [] status = "completed"  -> 2
      [] status = "failed"     -> 2

\* C5: the status of a record only moves forward, pending, then processing,
\* then completed or failed: no step takes the row of a filing, the object a
\* process is parsing, or the object a run hands to parse_sens_pdf, from a
\* status to an earlier one.
C5_StatusForward ==
    [][ /\ \A f \in Filings :
             (sens_announcements[f] # NoRow /\ sens_announcements'[f] # NoRow) =>
                 Rank(sens_announcements'[f].parse_status)
                     >= Rank(sens_announcements[f].parse_status)
        /\ \A p \in Procs :
             /\ (announcement[p] # NoAnn /\ announcement'[p] # NoAnn) =>
                    Rank(announcement'[p].parse_status)
                        >= Rank(announcement[p].parse_status)
             /\ \A a \in announcements[p] \ announcements'[p] :
                    (announcement'[p] # NoAnn
                        /\ announcement'[p].sens_number = a.sens_number) =>
                    Rank(announcement'[p].parse_status) >= Rank(a.parse_status)
      ]_vars

\* A second attempt is under way on a record whose row a first attempt has
\* already completed.
C5_Witness ==
    \E p \in Procs :
        /\ announcement[p] # NoAnn
        /\ announcement[p].parse_status = "processing"
        /\ sens_announcements[announcement[p].sens_number].parse_status = "completed"

(***************************************************************************)
(* The company intelligence store (src/src/company/company_db.py).         *)
(*                                                                         *)
(* A table is the sequence of its rows in rowid order: ids are             *)
(* AUTOINCREMENT and no row is ever deleted, so row i has id i.  The       *)
(* timestamp columns (first_seen, last_updated, the director and sponsor   *)
(* dates) are written and never read by the store; they are left out.      *)
(* Strings are the strings below; SQL LOWER, str.lower, str.upper and      *)
(* str.strip are tabulated on them.                                        *)
(***************************************************************************)
SQL_LOWER(s) ==
    CASE s = "ACM" -> "acm"
      [] s = "BET" -> "bet"
      [] s = "Acme Ltd" -> "acme ltd"
      [] s = "ACME LTD" -> "acme ltd"
      [] s = "Acme Ltd (ACM)" -> "acme ltd (acm)"
      [] s = "ACME LTD (ACM)" -> "acme ltd (acm)"
      [] s = "Beta Holdings" -> "beta holdings"
      [] s = "Beta Holdings BET" -> "beta holdings bet"
      [] s = "John Smith" -> "john smith"
      [] s = "JOHN SMITH" -> "john smith"
      [] s = "Mary Jones" -> "mary jones"
      [] OTHER -> s

\* the first row a SELECT returns: rows come back in rowid order
fetchone(ids) == IF ids = {} THEN 0 ELSE Min(ids)

NewCompany(name, jse_code, website) ==
    [name |-> name, jse_code |-> jse_code, website |-> website,
     sponsor |-> "", description |-> "", sector |-> ""]

\* upsert_company with the ticker compared as stored, without LOWER
upsert_company_case_sensitive(rows, name, jse_code, website) ==
    LET by_code == IF jse_code # ""
                   THEN fetchone({i \in 1..Len(rows) :
                            /\ rows[i].jse_code = jse_code
                            /\ rows[i].jse_code # ""})
                   ELSE 0
        row == IF by_code # 0
               THEN by_code
               ELSE fetchone({i \in 1..Len(rows) :
                        SQL_LOWER(rows[i].name) = SQL_LOWER(name)})
    IN  IF row # 0
        THEN [companies |->
                [rows EXCEPT
                    ![row].jse_code = IF jse_code # "" THEN jse_code ELSE @,
                    ![row].website = IF website # "" THEN website ELSE @],
              id |-> row]
        ELSE [companies |-> Append(rows, NewCompany(name, jse_code, website)),
              id |-> Len(rows) + 1]

\* upsert_company: the new table and the id returned
upsert_company(rows, name, jse_code, website) ==
    LET by_code == IF jse_code # ""
                   THEN fetchone({i \in 1..Len(rows) :
                            /\ SQL_LOWER(rows[i].jse_code) = SQL_LOWER(jse_code)
                            /\ rows[i].jse_code # ""})
                   ELSE 0
        row == IF by_code # 0
               THEN by_code
               ELSE fetchone({i \in 1..Len(rows) :
                        SQL_LOWER(rows[i].name) = SQL_LOWER(name)})
    IN  IF row # 0
        THEN [companies |->
                [rows EXCEPT
                    ![row].jse_code = IF jse_code # "" THEN jse_code ELSE @,
                    ![row].website = IF website # "" THEN website ELSE @],
              id |-> row]
        ELSE [companies |-> Append(rows, NewCompany(name, jse_code, website)),
              id |-> Len(rows) + 1]

CompanyNames == {"Acme Ltd", "ACME LTD", "Beta Holdings"}

JseCodes == {"", "ACM", "acm", "BET"}

Websites == {"", "https://acme.co.za"}

\* one call of upsert_company
UpsertCompany ==
    \E name \in CompanyNames, jse_code \in JseCodes, website \in Websites :
        LET r == upsert_company(companies, name, jse_code, website) IN
        /\ companies' = r.companies
        /\ last_call' = [op |-> "upsert_company", name |-> name,
                         jse_code |-> jse_code, website |-> website,
                         id |-> r.id]
        /\ UNCHANGED <<directors, sponsor_history, company_sens, ticker_file>>
        /\ UNCHANGED <<catVars, ocrVars, parseVars, auxVars>>

InitUpsert == CompanyIdle /\ CatIdle /\ OcrIdle /\ ParseIdle /\ AuxIdle

NextUpsert == UpsertCompany

SpecUpsert == InitUpsert /\ [][NextUpsert]_vars

\* C7: after any sequence of serial upsert_company calls no two companies
\* rows carry the same non-empty ticker, compared case-insensitively.
C7_NoDuplicateTicker ==
    \A i, j \in 1..Len(companies) :
        (i # j /\ companies[i].jse_code # "")
            => SQL_LOWER(companies[i].jse_code) # SQL_LOWER(companies[j].jse_code)

\* a call whose ticker, not its name, found the row it updated, next to a
\* second company with a ticker of its own
C7_Witness ==
    /\ last_call.op = "upsert_company"
    /\ Len(companies) = 2
    /\ last_call.jse_code # ""
    /\ companies[last_call.id].jse_code = last_call.jse_code
    /\ SQL_LOWER(companies[last_call.id].name) # SQL_LOWER(last_call.name)
    /\ \E j \in 1..Len(companies) :
        /\ j # last_call.id
        /\ companies[j].jse_code # ""
        /\ SQL_LOWER(companies[j].name) = SQL_LOWER(last_call.name)

(***************************************************************************)
(* Director tracking.                                                      *)
(***************************************************************************)
NewDirector(company_id, name, role, source_sens) ==
    [company_id |-> company_id, name |-> name, role |-> role,
     source_sens |-> source_sens, is_active |-> TRUE]

\* add_director with the name compared as stored, without LOWER
add_director_case_sensitive(rows, company_id, name, role, source_sens) ==
    LET existing == fetchone({i \in 1..Len(rows) :
                        /\ rows[i].company_id = company_id
                        /\ rows[i].name = name
                        /\ rows[i].is_active})
    IN  IF existing # 0
        THEN [directors |->
                IF role # ""
                THEN [rows EXCEPT ![existing].role = role,
                                  ![existing].source_sens = source_sens]
                ELSE rows,
              id |-> existing]
        ELSE [directors |->
                Append(rows, NewDirector(company_id, name, role, source_sens)),
              id |-> Len(rows) + 1]

\* add_director: the new table and the id returned
add_director(rows, company_id, name, role, source_sens) ==
    LET existing == fetchone({i \in 1..Len(rows) :
                        /\ rows[i].company_id = company_id
                        /\ SQL_LOWER(rows[i].name) = SQL_LOWER(name)
                        /\ rows[i].is_active})
    IN  IF existing # 0
        THEN [directors |->
                IF role # ""
                THEN [rows EXCEPT ![existing].role = role,
                                  ![existing].source_sens = source_sens]
                ELSE rows,
              id |-> existing]
        ELSE [directors |->
                Append(rows, NewDirector(company_id, name, role, source_sens)),
              id |-> Len(rows) + 1]

\* resign_director recording the resignation as a row of its own
resign_director_inserting(rows, company_id, name, source_sens) ==
    IF \E i \in 1..Len(rows) :
          /\ rows[i].company_id = company_id
          /\ SQL_LOWER(rows[i].name) = SQL_LOWER(name)
          /\ rows[i].is_active
    THEN Append(rows, [NewDirector(company_id, name, "", source_sens)
                          EXCEPT !.is_active = FALSE])
    ELSE rows

\* resign_director: every active row of that name is marked resigned
resign_director(rows, company_id, name, source_sens) ==
    [i \in 1..Len(rows) |->
        IF /\ rows[i].company_id = company_id
           /\ SQL_LOWER(rows[i].name) = SQL_LOWER(name)
           /\ rows[i].is_active
        THEN [rows[i] EXCEPT !.is_active = FALSE, !.source_sens = source_sens]
        ELSE rows[i]]

MaxDirectors == 2

CompanyIds == {1, 2}

DirectorNames == {"John Smith", "JOHN SMITH", "Mary Jones"}

Roles == {"", "CEO", "CFO"}

SensNumbers == {"S1", "S2"}

\* one call of add_director
AddDirector ==
    \E company_id \in CompanyIds, name \in DirectorNames, role \in Roles,
       source_sens \in SensNumbers :
        LET r == add_director(directors, company_id, name, role, source_sens) IN
        /\ Len(r.directors) <= MaxDirectors
        /\ directors' = r.directors
        /\ last_call' = [op |-> "add_director", company_id |-> company_id,
                         name |-> name, role |-> role,
                         source_sens |-> source_sens, id |-> r.id]
        /\ UNCHANGED <<companies, sponsor_history, company_sens, ticker_file>>
        /\ UNCHANGED <<catVars, ocrVars, parseVars, auxVars>>

\* one call of resign_director
ResignDirector ==
    \E company_id \in CompanyIds, name \in DirectorNames,
       source_sens \in SensNumbers :
        /\ directors' = resign_director(directors, company_id, name, source_sens)
        /\ last_call' = [op |-> "resign_director", company_id |-> company_id,
                         name |-> name, source_sens |-> source_sens]
        /\ UNCHANGED <<companies, sponsor_history, company_sens, ticker_file>>
        /\ UNCHANGED <<catVars, ocrVars, parseVars, auxVars>>

InitDirectors == CompanyIdle /\ CatIdle /\ OcrIdle /\ ParseIdle /\ AuxIdle

NextDirectors == AddDirector \/ ResignDirector

SpecDirectors == InitDirectors /\ [][NextDirectors]_vars

\* the active record add_director finds for these arguments, 0 when none
ActiveRecord(rows, company_id, name) ==
    fetchone({i \in 1..Len(rows) :
        /\ rows[i].company_id = company_id
        /\ SQL_LOWER(rows[i].name) = SQL_LOWER(name)
        /\ rows[i].is_active})

\* no effective resign_director call has been made: every record is active
OnlyAdded == \A i \in 1..Len(directors) : directors[i].is_active

NoTwoRecordsOfOneName ==
    \A i, j \in 1..Len(directors) :
        (/\ i # j
         /\ directors[i].company_id = directors[j].company_id)
            => SQL_LOWER(directors[i].name) # SQL_LOWER(directors[j].name)

\* C9 as stated: an add_director call that finds an active record of the
\* same company and the same name ignoring case adds no record and leaves
\* that record with the role of this call; and after add_director calls
\* alone no two records of a company share a name ignoring case.
C9_Original ==
    /\ [](OnlyAdded => NoTwoRecordsOfOneName)
    /\ [][(/\ last_call'.op = "add_director"
           /\ ActiveRecord(directors, last_call'.company_id, last_call'.name) # 0)
            => LET i == ActiveRecord(directors, last_call'.company_id,
                                     last_call'.name)
               IN  /\ Len(directors') = Len(directors)
                   /\ last_call'.id = i
                   /\ directors'[i].role = last_call'.role]_vars

\* C9: an add_director call that finds an active record of the same company
\* and the same name ignoring case adds no record; the record takes the role
\* of this call when that role is non-empty and keeps its role otherwise;
\* and after add_director calls alone no two records of a company share a
\* name ignoring case.
C9_SecondAddUpdatesRole ==
    /\ [](OnlyAdded => NoTwoRecordsOfOneName)
    /\ [][(/\ last_call'.op = "add_director"
           /\ ActiveRecord(directors, last_call'.company_id, last_call'.name) # 0)
            => LET i == ActiveRecord(directors, last_call'.company_id,
                                     last_call'.name)
               IN  /\ Len(directors') = Len(directors)
                   /\ last_call'.id = i
                   /\ directors'[i].role =
                        IF last_call'.role # ""
                        THEN last_call'.role
                        ELSE directors[i].role]_vars

\* a second add_director call, its name in another case than the stored
\* one, has given the single record its role
C9_Witness ==
    /\ last_call.op = "add_director"
    /\ Len(directors) = 1
    /\ directors[1].name # last_call.name
    /\ SQL_LOWER(directors[1].name) = SQL_LOWER(last_call.name)
    /\ directors[1].company_id = last_call.company_id
    /\ last_call.role # ""
    /\ directors[1].role = last_call.role
    /\ directors[1].source_sens = last_call.source_sens

(***************************************************************************)
(* The rest of the store: description, sector, sponsor, filing links.      *)
(***************************************************************************)
\* str.strip, str.upper, str.lower and len on the strings of the model
str_strip(s) ==
    CASE s = " acm " -> "acm"
      [] s = " Nedbank CIB " -> "Nedbank CIB"
      [] s = " " -> ""
      [] OTHER -> s

str_upper(s) ==
    CASE s = "acm" -> "ACM"
      [] s = "acmehold" -> "ACMEHOLD"
      [] OTHER -> s

str_lower(s) == SQL_LOWER(s)

str_len(s) ==
    CASE s = "" -> 0
      [] s = "JC" -> 2
      [] s \in {"ACM", "BET", "LTD"} -> 3
      [] s = "ACMEHOLD" -> 8
      [] s = "Nedbank CIB" -> 11
      [] s = "Java Capital" -> 12
      [] s = "Sponsor: JC" -> 11
      [] s = "https://acme.co.za" -> 18
      [] s = "Sponsor: Java Capital" -> 21
      [] s = "Results for the year ended June" -> 31

update_description(rows, company_id, description) ==
    IF description = "" \/ company_id \notin 1..Len(rows) THEN rows
    ELSE [rows EXCEPT ![company_id].description = description]

update_sector(rows, company_id, sector) ==
    IF sector = "" \/ company_id \notin 1..Len(rows) THEN rows
    ELSE [rows EXCEPT ![company_id].sector = sector]

get_description(rows, company_id) ==
    IF company_id \in 1..Len(rows) THEN rows[company_id].description ELSE ""

\* set_sponsor without the comparison with the current sponsor
set_sponsor_unconditional(rows, history, company_id, sponsor, source) ==
    LET stripped == str_strip(sponsor)
        known == company_id \in 1..Len(rows)
    IN  IF stripped = ""
        THEN [companies |-> rows, sponsor_history |-> history]
        ELSE [companies |->
                IF known THEN [rows EXCEPT ![company_id].sponsor = stripped]
                ELSE rows,
              sponsor_history |->
                Append(history, [company_id |-> company_id,
                                 sponsor |-> stripped, source |-> source])]

\* set_sponsor: the new companies and sponsor_history tables
set_sponsor(rows, history, company_id, sponsor, source) ==
    LET stripped == str_strip(sponsor)
        known == company_id \in 1..Len(rows)
    IN  IF stripped = "" \/ (known /\ rows[company_id].sponsor = stripped)
        THEN [companies |-> rows, sponsor_history |-> history]
        ELSE [companies |->
                IF known THEN [rows EXCEPT ![company_id].sponsor = stripped]
                ELSE rows,
              sponsor_history |->
                Append(history, [company_id |-> company_id,
                                 sponsor |-> stripped, source |-> source])]

\* the links held by the rows of company_sens
Links(rows) == {rows[i] : i \in 1..Len(rows)}

\* add_company_sens without the SELECT of lines 397-402
add_company_sens_unchecked(rows, company_id, sens_number) ==
    Append(rows, [company_id |-> company_id, sens_number |-> sens_number])

\* add_company_sens(company_id, sens_number, date_published, title): the
\* columns date_published and title take no part in the test and are left out
add_company_sens(rows, company_id, sens_number) ==
    LET existing == \E i \in 1..Len(rows) :
                       /\ rows[i].company_id = company_id
                       /\ rows[i].sens_number = sens_number
    IN  IF existing THEN rows
        ELSE Append(rows, [company_id |-> company_id, sens_number |-> sens_number])

get_company_by_jse_code(rows, jse_code) ==
    IF jse_code = "" THEN 0
    ELSE fetchone({i \in 1..Len(rows) :
            SQL_LOWER(rows[i].jse_code) = SQL_LOWER(jse_code)})

(***************************************************************************)
(* The enricher (src/src/company/enricher.py).                             *)
(*                                                                         *)
(* A company name is a string with its words tabulated.  The parsed PDF    *)
(* text is the sequence of its lines.  A provider's answer is a sequence   *)
(* of tokens: a Markdown fence, the word json, a line break, prose, a      *)
(* brace, or the text of one whole JSON value.                             *)
(***************************************************************************)
\* company_name.split()
split(name) ==
    CASE name = "Acme Ltd (ACM)" -> <<"Acme", "Ltd", "(ACM)">>
      [] name = "ACME LTD" -> <<"ACME", "LTD">>
      [] name = "Beta Holdings" -> <<"Beta", "Holdings">>
      [] name = "Beta Holdings BET" -> <<"Beta", "Holdings", "BET">>
      [] name = "" -> <<>>

\* the group of \(([A-Z]{2,5})\) in a word, "" when the word has none
ParenCode(word) == IF word = "(ACM)" THEN "ACM" ELSE ""

\* ^[A-Z]{2,5}$
IsBareCode(word) == word \in {"ACME", "LTD", "BET"}

extract_jse_code_from_name(company_name) ==
    IF company_name = "" THEN ""
    ELSE LET parts == split(company_name)
             hits == {i \in 1..Len(parts) : ParenCode(parts[i]) # ""}
         IN  IF hits # {} THEN ParenCode(parts[Min(hits)])
             ELSE IF parts # <<>> /\ IsBareCode(parts[Len(parts)])
                  THEN parts[Len(parts)]
             ELSE ""

L_plain == "Results for the year ended June"
L_sponsor == "Sponsor: Java Capital"
L_sponsor_short == "Sponsor: JC"
L_url == "https://acme.co.za"

\* group 1 of the sponsor pattern on a line, cut at the line's end and
\* stripped; "" when the line does not match
SponsorGroup(line) ==
    CASE line = L_sponsor -> "Java Capital"
      [] line = L_sponsor_short -> "JC"
      [] OTHER -> ""

\* the match of https?://[\w\.-/]+ on a line, "" when there is none
UrlMatch(line) == IF line = L_url THEN L_url ELSE ""

\* re.search takes the first match in the text; a value of the wrong length
\* is not replaced by a later match
extract_sponsor(ann) ==
    LET text == ann.pdf_content
        hits == {i \in 1..Len(text) : SponsorGroup(text[i]) # ""}
    IN  IF hits = {} THEN ""
        ELSE LET val == SponsorGroup(text[Min(hits)]) IN
             IF 3 < str_len(val) /\ str_len(val) < 80 THEN val ELSE ""

extract_website(ann) ==
    LET text == ann.pdf_content
        hits == {i \in 1..Len(text) : UrlMatch(text[i]) # ""}
    IN  IF hits = {} THEN "" ELSE UrlMatch(text[Min(hits)])

\* len(text): the lines and the line breaks between them
RECURSIVE content_len(_)
content_len(text) ==
    IF text = <<>> THEN 0
    ELSE IF Len(text) = 1 THEN str_len(text[1])
    ELSE str_len(text[1]) + 1 + content_len(Tail(text))

\* the tokens of an answer
FENCE == "<three backticks>"

NL == "<line break>"

LB == "<opening brace>"

RB == "<closing brace>"

QUOTE == "<double quote>"

NULL == "null"

\* Python's None, as a field of the dict
None == "<None>"

DEEP == "<a thousand opening brackets>"

OBJ_A == "<object A>"

OBJ_B == "<object B>"

OBJ_C == "<object C>"

\* the dict json.loads builds from the text of an object
ObjData(tok) ==
    CASE tok = OBJ_A ->
            [jse_code |-> " acm ", sponsor |-> " Nedbank CIB ",
             company_description |-> "Makes widgets", sector |-> "Industrials",
             directors_appointed |-> <<[name |-> "John Smith", role |-> "CEO"]>>,
             directors_resigned |-> <<>>]
      [] tok = OBJ_B ->
            [jse_code |-> None, sponsor |-> None,
             company_description |-> "Sells widgets", sector |-> None,
             directors_appointed |-> <<>>,
             directors_resigned |-> <<[name |-> "JOHN SMITH", role |-> None]>>]
      [] tok = OBJ_C ->
            [jse_code |-> "acmehold", sponsor |-> " ",
             company_description |-> None, sector |-> None,
             directors_appointed |-> <<[name |-> "JOHN SMITH", role |-> None],
                                       [name |-> None, role |-> "CFO"]>>,
             directors_resigned |-> <<>>]

IsObj(tok) == tok \in {OBJ_A, OBJ_B, OBJ_C}

\* str.strip() of an answer: line breaks at either end go
strip_ws(toks) ==
    LET ink == {i \in 1..Len(toks) : toks[i] # NL} IN
    IF ink = {} THEN <<>> ELSE SubSeq(toks, Min(ink), Max(ink))

\* re.sub(r"^```(?:json)?\s*", "", text)
strip_open_fence(toks) ==
    IF toks = <<>> \/ toks[1] # FENCE THEN toks
    ELSE LET from == IF Len(toks) >= 2 /\ toks[2] = "json" THEN 3 ELSE 2
             ink == {i \in from..Len(toks) : toks[i] # NL}
         IN  IF ink = {} THEN <<>> ELSE SubSeq(toks, Min(ink), Len(toks))

\* re.sub(r"\s*```$", "", text)
strip_close_fence(toks) ==
    IF toks = <<>> \/ toks[Len(toks)] # FENCE THEN toks
    ELSE LET ink == {i \in 1..(Len(toks) - 1) : toks[i] # NL} IN
         IF ink = {} THEN <<>> ELSE SubSeq(toks, 1, Max(ink))

\* json.loads: a value, a JSONDecodeError, or the RecursionError of a text
\* nested deeper than the interpreter's stack
json_loads(toks) ==
    LET t == strip_ws(toks) IN
    IF t # <<>> /\ t[1] = DEEP THEN [kind |-> "RecursionError"]
    ELSE IF Len(t) = 1 /\ IsObj(t[1]) THEN [kind |-> "dict", value |-> ObjData(t[1])]
    ELSE IF t \in {<<LB, RB>>, <<LB, NL, RB>>} THEN [kind |-> "empty dict"]
    ELSE IF t = <<NULL>> THEN [kind |-> "None"]
    ELSE IF t = <<"[1]">> THEN [kind |-> "list"]
    ELSE [kind |-> "JSONDecodeError"]

\* re.search(r"\{[\s\S]*\}", text): from the first opening brace to the last
\* closing brace after it
brace_match(toks) ==
    LET opens == {i \in 1..Len(toks) : toks[i] = LB \/ IsObj(toks[i])}
        closes == {i \in 1..Len(toks) : toks[i] = RB \/ IsObj(toks[i])}
    IN  IF opens = {} \/ closes = {} \/ Max(closes) < Min(opens) THEN <<>>
        ELSE SubSeq(toks, Min(opens), Max(closes))

\* _parse_json_response: kind "None" is the return of None
parse_json_response(raw) ==
    LET stripped == strip_ws(raw)
        text == IF stripped # <<>> /\ stripped[1] = FENCE
                THEN strip_close_fence(strip_open_fence(stripped))
                ELSE stripped
        first == json_loads(text)
    IN  IF first.kind # "JSONDecodeError" THEN first
        ELSE LET match == brace_match(text) IN
             IF match = <<>> THEN [kind |-> "None"]
             ELSE LET second == json_loads(match) IN
                  IF second.kind = "JSONDecodeError" THEN [kind |-> "None"]
                  ELSE second

\* the provider call raises
AI_EXC == <<"<exception>">>

\* _call_ai: the stripped answer, "" when the provider call raises
call_ai(response) == IF response = AI_EXC THEN <<>> ELSE strip_ws(response)

\* x or ""
or_empty(x) == IF x = None THEN "" ELSE x

\* str.strip('"') of an answer
strip_quotes(toks) ==
    LET ink == {i \in 1..Len(toks) : toks[i] # QUOTE} IN
    IF ink = {} THEN <<>> ELSE SubSeq(toks, Min(ink), Max(ink))

\* the string an answer of one word stands for
text_of(toks) == IF toks = <<>> THEN "" ELSE toks[1]

\* _synthesise_description, called with a client configured
synthesise_description(existing, new, merge_response) ==
    LET result == call_ai(merge_response) IN
    IF result # <<>> THEN text_of(strip_ws(strip_quotes(result))) ELSE new

\* _auto_add_ticker; file_ok is FALSE when the ticker file cannot be read or
\* written, which the function logs and swallows
auto_add_ticker(tickers, jse_code, file_ok) ==
    IF jse_code = "" \/ str_len(jse_code) > 5 THEN tickers
    ELSE IF ~file_ok THEN tickers
    ELSE tickers \cup {str_upper(jse_code)}

\* for d in data.get("directors_appointed") or []
RECURSIVE add_appointed(_, _, _, _)
add_appointed(rows, company_id, ds, sens_number) ==
    IF ds = <<>> THEN rows
    ELSE LET name == str_strip(or_empty(Head(ds).name))
             after == IF name # ""
                      THEN add_director(rows, company_id, name,
                                        str_strip(or_empty(Head(ds).role)),
                                        sens_number).directors
                      ELSE rows
         IN  add_appointed(after, company_id, Tail(ds), sens_number)

\* for d in data.get("directors_resigned") or []
RECURSIVE mark_resigned(_, _, _, _)
mark_resigned(rows, company_id, ds, sens_number) ==
    IF ds = <<>> THEN rows
    ELSE LET name == str_strip(or_empty(Head(ds).name))
             after == IF name # ""
                      THEN resign_director(rows, company_id, name, sens_number)
                      ELSE rows
         IN  mark_resigned(after, company_id, Tail(ds), sens_number)

\* the body of _ai_enrich once data is a non-empty dict
apply_data(db, company_id, ann, data, merge_response, file_ok) ==
    LET jse_code == str_upper(str_strip(or_empty(data.jse_code)))
        coded == jse_code # "" /\ str_len(jse_code) <= 5
        c1 == IF coded
              THEN upsert_company(db.companies, ann.company_name, jse_code, "").companies
              ELSE db.companies
        tickers == IF coded
                   THEN auto_add_ticker(db.ticker_file, jse_code, file_ok)
                   ELSE db.ticker_file
        ai_sponsor == str_strip(or_empty(data.sponsor))
        s == IF ai_sponsor # ""
             THEN set_sponsor(c1, db.sponsor_history, company_id, ai_sponsor,
                              ann.sens_number)
             ELSE [companies |-> c1, sponsor_history |-> db.sponsor_history]
        desc == str_strip(or_empty(data.company_description))
        existing == get_description(s.companies, company_id)
        c3 == IF desc = "" THEN s.companies
              ELSE IF existing = ""
                   THEN update_description(s.companies, company_id, desc)
              ELSE IF str_lower(existing) # str_lower(desc)
                   THEN update_description(s.companies, company_id,
                            synthesise_description(existing, desc, merge_response))
              ELSE s.companies
        sector == str_strip(or_empty(data.sector))
        c4 == IF sector # "" THEN update_sector(c3, company_id, sector) ELSE c3
        d1 == add_appointed(db.directors, company_id, data.directors_appointed,
                            ann.sens_number)
        d2 == mark_resigned(d1, company_id, data.directors_resigned,
                            ann.sens_number)
    IN  [db EXCEPT !.companies = c4, !.sponsor_history = s.sponsor_history,
                   !.ticker_file = tickers, !.directors = d2]

\* _ai_enrich: the tables it leaves and whether an exception left it
ai_enrich(db, company_id, ann, response, merge_response, file_ok) ==
    IF Min({content_len(ann.pdf_content), 6000}) < 50
    THEN [db |-> db, raised |-> FALSE]
    ELSE LET raw == call_ai(response) IN
         IF raw = <<>> THEN [db |-> db, raised |-> FALSE]
         ELSE LET data == parse_json_response(raw) IN
              IF data.kind = "RecursionError" THEN [db |-> db, raised |-> TRUE]
              ELSE IF data.kind \in {"None", "empty dict"}
                   THEN [db |-> db, raised |-> FALSE]
              ELSE IF data.kind # "dict"
                   \* data.get on a list: AttributeError
                   THEN [db |-> db, raised |-> TRUE]
              ELSE [db |-> apply_data(db, company_id, ann, data.value,
                                      merge_response, file_ok),
                    raised |-> FALSE]

\* no AI client is configured
NO_CLIENT == <<"<no client>">>

\* lines 100-104 without the try/except
ai_block_unguarded(db, company_id, ann, response, merge_response, file_ok) ==
    IF ann.pdf_content # <<>> /\ response # NO_CLIENT
    THEN ai_enrich(db, company_id, ann, response, merge_response, file_ok)
    ELSE [db |-> db, raised |-> FALSE]

\* lines 100-104: the AI extraction, its exceptions logged and swallowed
ai_block(db, company_id, ann, response, merge_response, file_ok) ==
    IF ann.pdf_content # <<>> /\ response # NO_CLIENT
    THEN [db |-> ai_enrich(db, company_id, ann, response, merge_response,
                           file_ok).db,
          raised |-> FALSE]
    ELSE [db |-> db, raised |-> FALSE]

\* enrich_from_announcement: the tables it leaves, the company id it worked
\* on, and whether an exception left it
enrich_from_announcement(db, ann, response, merge_response, file_ok) ==
    LET jse_code == extract_jse_code_from_name(ann.company_name)
        u == upsert_company(db.companies, ann.company_name, jse_code, "")
        company_id == u.id
        links == add_company_sens(db.company_sens, company_id, ann.sens_number)
        sponsor == extract_sponsor(ann)
        s == IF sponsor # ""
             THEN set_sponsor(u.companies, db.sponsor_history, company_id,
                              sponsor, ann.sens_number)
             ELSE [companies |-> u.companies,
                   sponsor_history |-> db.sponsor_history]
        website == extract_website(ann)
        c2 == IF website # ""
              THEN upsert_company(s.companies, ann.company_name, "", website).companies
              ELSE s.companies
        db2 == [db EXCEPT !.companies = c2,
                          !.sponsor_history = s.sponsor_history,
                          !.company_sens = links]
        ai == ai_block(db2, company_id, ann, response, merge_response, file_ok)
        found == IF jse_code = ""
                 THEN get_company_by_jse_code(ai.db.companies, "")
                 ELSE 0
        final_code == IF jse_code # "" THEN jse_code
                      ELSE IF found # 0 THEN ai.db.companies[found].jse_code
                      ELSE ""
    IN  IF ai.raised
        THEN [db |-> ai.db, company_id |-> company_id, raised |-> TRUE]
        ELSE [db |-> IF final_code # ""
                     THEN [ai.db EXCEPT !.ticker_file =
                              auto_add_ticker(@, final_code, file_ok)]
                     ELSE ai.db,
              company_id |-> company_id, raised |-> FALSE]

MaxHistory == 3
MaxLinks == 3

\* a parsed filing of a company whose name carries no code
A_long ==
    [sens_number |-> "S1", company_name |-> "Beta Holdings",
     pdf_content |-> <<L_plain, L_sponsor, L_url>>]

\* the same filing before its PDF was parsed
A_unparsed ==
    [sens_number |-> "S1", company_name |-> "Beta Holdings",
     pdf_content |-> <<>>]

\* a filing with little text, of a company whose name carries its code
A_short ==
    [sens_number |-> "S2", company_name |-> "Acme Ltd (ACM)",
     pdf_content |-> <<L_plain>>]

Announcements == {A_long, A_unparsed, A_short}

R_empty == <<>>

R_prose == <<"I cannot extract this.">>

R_two == <<OBJ_A, "and", OBJ_B>>

R_open == <<LB, "jse_code">>

R_deep == <<DEEP>>

R_null == <<NULL>>

R_list == <<"[1]">>

R_A == <<OBJ_A>>

R_B_fenced == <<FENCE, "json", NL, OBJ_B, NL, FENCE>>

R_C_prose == <<"Here is the JSON:", NL, OBJ_C, NL>>

\* what the provider answers to the extraction prompt; AI_EXC when the call
\* raises
Responses ==
    {AI_EXC, R_empty, R_prose, R_two, R_open, R_deep, R_null, R_list,
     R_A, R_B_fenced, R_C_prose}

\* what the provider answers to the synthesis prompt
MergeResponses ==
    {AI_EXC, <<QUOTE, "Makes and sells widgets", QUOTE>>}

DB ==
    [companies |-> companies, directors |-> directors,
     sponsor_history |-> sponsor_history, company_sens |-> company_sens,
     ticker_file |-> ticker_file]

\* one call of enrich_from_announcement
EnrichFromAnnouncement ==
    \E ann \in Announcements, response \in Responses \cup {NO_CLIENT} :
        \E r \in {enrich_from_announcement(DB, ann, response, m, f) :
                    m \in MergeResponses, f \in BOOLEAN} :
            /\ Len(r.db.directors) <= MaxDirectors
            /\ Len(r.db.sponsor_history) <= MaxHistory
            /\ Len(r.db.company_sens) <= MaxLinks
            /\ companies' = r.db.companies
            /\ directors' = r.db.directors
            /\ sponsor_history' = r.db.sponsor_history
            /\ company_sens' = r.db.company_sens
            /\ ticker_file' = r.db.ticker_file
            /\ last_call' = [op |-> "enrich_from_announcement", ann |-> ann,
                             response |-> response,
                             company_id |-> r.company_id, raised |-> r.raised]
            /\ UNCHANGED <<catVars, ocrVars, parseVars, auxVars>>

InitEnrich == CompanyIdle /\ CatIdle /\ OcrIdle /\ ParseIdle /\ AuxIdle

NextEnrich == EnrichFromAnnouncement

SpecEnrich == InitEnrich /\ [][NextEnrich]_vars

\* the answers that are empty or cannot be parsed as JSON
EmptyOrUnparsable == {AI_EXC, R_empty, R_prose, R_two, R_open, R_deep}

\* the row a call found or made, as it was before the call
RowBefore(i, ann) ==
    IF i <= Len(companies) THEN companies[i]
    ELSE NewCompany(ann.company_name, "", "")

\* C8: when the AI answer is empty or cannot be parsed,
\* enrich_from_announcement completes, the company row and the filing link
\* exist, and ticker, sponsor, description, sector and directors are as the
\* steps that run without the AI leave them.
C8_UnparsableResponseChangesNothing ==
    [][(/\ last_call'.op = "enrich_from_announcement"
        /\ last_call'.response \in EmptyOrUnparsable)
        => LET ann == last_call'.ann
               id == last_call'.company_id
               regex_code == extract_jse_code_from_name(ann.company_name)
               regex_sponsor == extract_sponsor(ann)
           IN  /\ ~last_call'.raised
               /\ id \in 1..Len(companies')
               /\ [company_id |-> id, sens_number |-> ann.sens_number]
                    \in Links(company_sens')
               /\ directors' = directors
               /\ \A i \in 1..Len(companies') :
                    /\ companies'[i].description = RowBefore(i, ann).description
                    /\ companies'[i].sector = RowBefore(i, ann).sector
                    /\ companies'[i].jse_code
                        \in {RowBefore(i, ann).jse_code, regex_code}
                    /\ companies'[i].sponsor
                        \in {RowBefore(i, ann).sponsor, regex_sponsor}
               /\ \A k \in (Len(sponsor_history) + 1)..Len(sponsor_history') :
                    sponsor_history'[k].sponsor = regex_sponsor
               /\ ticker_file' \subseteq ticker_file \cup {regex_code}]_vars

\* an answer that cannot be parsed arrived for a filing with enough text, of
\* a company that an earlier answer had described: the call returned, the
\* row and the link are there, and the ticker, description, sector and
\* director that the earlier answer gave stand
C8_Witness ==
    /\ last_call.op = "enrich_from_announcement"
    /\ last_call.response \in {R_prose, R_two, R_open, R_deep}
    /\ content_len(last_call.ann.pdf_content) >= 50
    /\ ~last_call.raised
    /\ last_call.company_id \in 1..Len(companies)
    /\ [company_id |-> last_call.company_id,
        sens_number |-> last_call.ann.sens_number] \in Links(company_sens)
    /\ companies[last_call.company_id].description = "Makes widgets"
    /\ companies[last_call.company_id].sector = "Industrials"
    /\ companies[last_call.company_id].jse_code = "ACM"
    /\ extract_jse_code_from_name(last_call.ann.company_name) = ""
    /\ \E i \in 1..Len(directors) :
        /\ directors[i].company_id = last_call.company_id
        /\ directors[i].is_active

(***************************************************************************)
(* The categorizer as a reader of module state: categorize_title reads the *)
(* list _CATEGORY_RULES (sens_categorizer.py line 184), which _r filled    *)
(* when the module was imported.  A call is given the list as it stands    *)
(* and leaves a list behind.                                               *)
(***************************************************************************)
\* categorize_title with the matching rule moved to the head of the list
categorize_call_move_to_front(rules, t) ==
    LET i == IF Falsy(t) THEN 0 ELSE FirstMatchFrom(rules, t.text, 1) IN
    IF i = 0 THEN [returned |-> FALLBACK, rules |-> rules]
    ELSE [returned |-> <<rules[i].category, rules[i].is_noise>>,
          rules |-> <<rules[i]>> \o SubSeq(rules, 1, i - 1)
                        \o SubSeq(rules, i + 1, Len(rules))]

\* categorize_title: what it returns and the list it leaves
categorize_call(rules, t) ==
    LET i == IF Falsy(t) THEN 0 ELSE FirstMatchFrom(rules, t.text, 1) IN
    IF i = 0 THEN [returned |-> FALLBACK, rules |-> rules]
    ELSE [returned |-> <<rules[i].category, rules[i].is_noise>>,
          rules |-> rules]

MaxCalls == 3

\* the titles of the calls: None, the empty string, the named titles
CallTitles ==
    {NoTitle, [null |-> FALSE, text |-> <<>>]}
        \cup {[null |-> FALSE, text |-> s] : s \in NamedTitles}

\* the module has been imported: _r has appended every rule
PureInit ==
    /\ rule_table = CATEGORY_RULES
    /\ call_log = <<>>

\* one call of categorize_title
CallCategorizeTitle ==
    /\ Len(call_log) < MaxCalls
    /\ \E t \in CallTitles :
        LET r == categorize_call(rule_table, t) IN
        /\ call_log' = Append(call_log, [title |-> t, returned |-> r.returned])
        /\ rule_table' = r.rules
    /\ UNCHANGED <<catVars, ocrVars, parseVars, companyVars, callVars, procVars>>

InitPure == PureInit /\ CatIdle /\ OcrIdle /\ ParseIdle /\ CompanyIdle /\ CallIdle /\ ProcIdle

NextPure == CallCategorizeTitle

SpecPure == InitPure /\ [][NextPure]_vars

\* C11: every call of categorize_title returns one (label, noise) pair;
\* two calls on the same title return the same pair, whatever calls were
\* made between them; and no call changes the rule table.
C11_PureFunction ==
    /\ rule_table = CATEGORY_RULES
    /\ \A i \in 1..Len(call_log) :
        /\ Len(call_log[i].returned) = 2
        /\ call_log[i].returned[2] \in BOOLEAN
        /\ call_log[i].returned[1] \in
              {CATEGORY_RULES[k].category : k \in 1..Len(CATEGORY_RULES)}
                  \cup {FALLBACK[1]}
    /\ \A i, j \in 1..Len(call_log) :
        call_log[i].title = call_log[j].title
            => call_log[i].returned = call_log[j].returned

\* a title was categorized, then a title of another category, then the
\* first title again
C11_Witness ==
    /\ Len(call_log) = 3
    /\ call_log[1].title = call_log[3].title
    /\ call_log[1].returned = <<"Share Buybacks & Treasury", FALSE>>
    /\ call_log[2].returned = <<"Dividends & Distributions", FALSE>>
    /\ call_log[3].returned = call_log[1].returned

(***************************************************************************)
(* One call of parse_sens_pdf, recorded with the stages it invoked.        *)
(*                                                                         *)
(* parse_call holds the announcement as it was passed, whether the file    *)
(* exists, the environment of the call, the announcement as it was         *)
(* returned, the helpers invoked in their order, and what the AI fallback  *)
(* was given and gave back.                                                *)
(***************************************************************************)
\* _extract_with_ai, lines 310-345: what became of the provider call
provider_call(ocr_text, e) ==
    IF ~e.parse_ai_available THEN "not called"
    ELSE IF (ocr_text = "" \/ TextLen(Strip(ocr_text)) < 50) /\ e.pypdf = ""
    THEN "not called"
    ELSE IF e.parse_answer = EXC THEN "raised"
    ELSE "answered"

\* The helpers the try statement invokes, with the summary made for any
\* content.
stages_invoked_ungated_summary(e) ==
    LET good == e.ocr[2] = "good" IN
    <<"_extract_with_ocr">>
    \o (IF good THEN <<>> ELSE <<"_extract_with_ai">>)
    \o (IF ~(~good /\ e.unexpected = "_parse_ai_available")
        THEN <<"_generate_summary">> ELSE <<>>)

\* The helpers the try statement of parse_sens_pdf invokes, in their order,
\* with the fallback invoked whatever the OCR reported.
stages_invoked_always_fallback(e) ==
    LET content == extract_with_ai(e.ocr[1], e) IN
    <<"_extract_with_ocr", "_extract_with_ai">>
    \o (IF e.unexpected # "_parse_ai_available" /\ content # ""
        THEN <<"_generate_summary">> ELSE <<>>)

\* The helpers the try statement of parse_sens_pdf invokes, in their order
\* (lines 87, 96 and 102).
stages_invoked(e) ==
    LET good == e.ocr[2] = "good"
        content == IF good THEN e.ocr[1] ELSE extract_with_ai(e.ocr[1], e)
    IN  <<"_extract_with_ocr">>
        \o (IF good THEN <<>> ELSE <<"_extract_with_ai">>)
        \o (IF ~(~good /\ e.unexpected = "_parse_ai_available") /\ content # ""
            THEN <<"_generate_summary">> ELSE <<>>)

\* What a call of parse_sens_pdf is recorded as.
ParseRecord(a, exists, e, out, caught, invoked) ==
    LET fallback == \E i \in 1..Len(invoked) : invoked[i] = "_extract_with_ai"
        ai_raised == fallback /\ e.unexpected = "_parse_ai_available"
    IN  [ op |-> "parse_sens_pdf", ann_in |-> a, exists |-> exists, env |-> e,
          ann_out |-> out.ann, raised |-> out.raised, caught |-> caught,
          invoked |-> invoked,
          ai_arg |-> IF fallback THEN e.ocr[1] ELSE "",
          ai_returned |-> IF ~fallback THEN ""
                          ELSE IF ai_raised THEN EXC
                          ELSE extract_with_ai(e.ocr[1], e),
          provider |-> IF ~fallback \/ ai_raised THEN "not called"
                       ELSE provider_call(e.ocr[1], e) ]

\* parse_sens_pdf without the check of lines 75-79
parse_sens_pdf_without_file_check(a, exists, e) ==
    LET processing == [a EXCEPT !.parse_status = "processing"] IN
    ParseRecord(a, exists, e, parse_stages(processing, e),
                try_block(processing, e).exc, stages_invoked(e))

\* parse_sens_pdf(announcement), lines 65-115
parse_sens_pdf(a, exists, e) ==
    IF a.local_pdf_path = "" \/ ~exists
    THEN ParseRecord(a, exists, e,
             [ann |-> [a EXCEPT !.parse_status = "failed",
                                !.parse_method = "no_file"],
              raised |-> FALSE],
             FALSE, <<>>)
    ELSE LET processing == [a EXCEPT !.parse_status = "processing"] IN
         ParseRecord(a, exists, e, parse_stages(processing, e),
                     try_block(processing, e).exc, stages_invoked(e))

(***************************************************************************)
(* The announcements passed: a new one and one parsed before, each with    *)
(* and without a local path.                                               *)
(***************************************************************************)
ParsedBefore(path) ==
    [NewAnnouncement(1, path) EXCEPT !.pdf_content = "ocr text",
                                     !.ai_summary = "summary",
                                     !.parse_method = "ocr",
                                     !.parse_status = "completed"]

StageAnnouncements ==
    {NewAnnouncement(1, path) : path \in Paths}
    \cup {ParsedBefore(path) : path \in Paths}

DisposalTitle ==
    [null |-> FALSE,
     text |-> <<"Voluntary", "Announcement", "-", "disposal", "of", "subsidiary">>]

StageTitles == {DisposalTitle, [null |-> FALSE, text |-> <<"Dealings", "in", "securities">>]}

\* parse_sens_pdf is called on an announcement.
ParseSensPdf ==
    /\ parse_call = NoCall
    /\ \E t \in StageTitles : \E a \in StageAnnouncements :
       \E exists \in BOOLEAN : \E e \in Envs :
          parse_call' = [title |-> t, category |-> <<>>] @@ parse_sens_pdf(a, exists, e)
    /\ UNCHANGED <<catVars, ocrVars, parseVars, companyVars, pureVars, procVars>>
    /\ UNCHANGED <<ocr_call, anomaly_call, sentiment_call, enrich_call>>

\* The title of the announcement is categorized (categorize_title is called
\* with the title of each announcement shown or counted).
CategorizeAnnouncement ==
    /\ parse_call # NoCall
    /\ parse_call.category = <<>>
    /\ parse_call' = [parse_call EXCEPT !.category = categorize_title(parse_call.title)]
    /\ UNCHANGED <<catVars, ocrVars, parseVars, companyVars, pureVars, procVars>>
    /\ UNCHANGED <<ocr_call, anomaly_call, sentiment_call, enrich_call>>

InitStages == AuxIdle /\ CatIdle /\ OcrIdle /\ ParseIdle /\ CompanyIdle

NextStages == ParseSensPdf \/ CategorizeAnnouncement

SpecStages == InitStages /\ [][NextStages]_vars

Called == parse_call # NoCall

Invoked(stage) ==
    \E i \in 1..Len(parse_call.invoked) : parse_call.invoked[i] = stage

\* C12: when the announcement has no local path or its file is missing,
\* parse_sens_pdf returns without raising, with status failed and method
\* no_file, invokes neither the OCR nor the AI fallback nor the summary,
\* and leaves the extracted text and the summary as they were.
C12_NoFileMarksFailed ==
    (Called /\ (parse_call.ann_in.local_pdf_path = "" \/ ~parse_call.exists)) =>
        /\ ~parse_call.raised
        /\ parse_call.ann_out.parse_status = "failed"
        /\ parse_call.ann_out.parse_method = "no_file"
        /\ parse_call.invoked = <<>>
        /\ parse_call.provider = "not called"
        /\ parse_call.ann_out.pdf_content = parse_call.ann_in.pdf_content
        /\ parse_call.ann_out.ai_summary = parse_call.ann_in.ai_summary

\* An announcement parsed before, with a path whose file is gone, comes back
\* failed with its text and summary kept, in an environment where the OCR
\* and the providers would have worked.
C12_Witness ==
    /\ Called
    /\ parse_call.ann_in = ParsedBefore("sens.pdf")
    /\ ~parse_call.exists
    /\ parse_call.env.ocr = <<"ocr text", "poor">>
    /\ parse_call.env.parse_answer = " cleaned text "
    /\ parse_call.ann_out.parse_method = "no_file"
    /\ parse_call.ann_out.pdf_content = "ocr text"
    /\ parse_call.ann_out.ai_summary = "summary"

\* what the extraction left for the summary stage
MergedText ==
    IF parse_call.env.ocr[2] = "good" THEN parse_call.env.ocr[1]
    ELSE parse_call.ai_returned

\* C19: the stages of a parse run in the order OCR, AI fallback, summary;
\* the AI fallback is invoked exactly when the OCR reported poor; when the
\* stages run through without an exception reaching the handler of
\* parse_sens_pdf, the method recorded is ocr when the OCR was good and ai
\* otherwise; the summary is invoked only after the extraction and exactly
\* when the merged text is not empty.
C19_StageOrder ==
    (Called /\ parse_call.invoked # <<>>) =>
        /\ parse_call.invoked \in
              { <<"_extract_with_ocr">>,
                <<"_extract_with_ocr", "_extract_with_ai">>,
                <<"_extract_with_ocr", "_generate_summary">>,
                <<"_extract_with_ocr", "_extract_with_ai", "_generate_summary">> }
        /\ Invoked("_extract_with_ai") <=> parse_call.env.ocr[2] = "poor"
        /\ ~parse_call.caught =>
              parse_call.ann_out.parse_method =
                 IF parse_call.env.ocr[2] = "good" THEN "ocr" ELSE "ai"
        /\ Invoked("_generate_summary") <=> MergedText \notin {"", EXC}
        /\ Invoked("_generate_summary") =>
              parse_call.ann_out.pdf_content = MergedText

\* A poor OCR text cleaned by the provider and summarised: all three stages.
C19_Witness ==
    /\ Called
    /\ parse_call.env.ocr = <<"ocr text", "poor">>
    /\ parse_call.invoked =
          <<"_extract_with_ocr", "_extract_with_ai", "_generate_summary">>
    /\ parse_call.provider = "answered"
    /\ parse_call.ann_out.parse_method = "ai"
    /\ parse_call.ann_out.pdf_content = "cleaned text"
    /\ parse_call.ann_out.ai_summary = "summary"
    /\ parse_call.ann_out.parse_status = "completed"

\* C20: when the provider call of the AI fallback raises, the fallback
\* returns the text it was given by its caller, and the parse goes on to
\* the summary stage without raising.
C20_ProviderFailureReturnsOriginalText ==
    (Called /\ parse_call.provider = "raised") =>
        /\ parse_call.ai_returned = parse_call.ai_arg
        /\ ~parse_call.raised
        /\ Invoked("_generate_summary") <=> parse_call.ai_returned # ""

\* The provider raised on a text-layer extraction that had replaced a short
\* OCR text: the fallback returned the text-layer text, not the OCR text.
C20_Divergence ==
    /\ Called
    /\ parse_call.provider = "raised"
    /\ parse_call.ai_arg = "ocr short"
    /\ parse_call.ai_returned = "layer text"
    /\ parse_call.ann_out.pdf_content = "layer text"
    /\ ~parse_call.raised

\* documents whose recognised text has 40 characters
Docs40 ==
    { <<Page(<<Seg(W_abcd, 7), Seg(W_a, 3)>>, FALSE)>>,
      <<Page(<<Seg(W_num, 4)>>, TRUE), Page(<<Seg(W_num, 3)>>, FALSE)>> }

\* the filing of the scenario: the disposal title, no text yet, a file
\* whose OCR output has 40 characters; the title has been categorized
DisposalFiling ==
    /\ Called
    /\ parse_call.category # <<>>
    /\ parse_call.title = DisposalTitle
    /\ parse_call.ann_in.pdf_content = ""
    /\ parse_call.ann_in.local_pdf_path # ""
    /\ parse_call.exists
    /\ TextLen(parse_call.env.ocr[1]) = 40

Scored40Poor ==
    \A d \in Docs40 :
        /\ TotalChars(d, 1) = 40
        /\ assess_ocr_quality(FullText(d, 1), TotalChars(d, 1)) = "poor"

\* The scenario as stated: the OCR is scored poor, the AI fallback is
\* invoked, the summary generation is invoked, and the title is categorized
\* "Acquisitions & Disposals" with noise false.
C15_Original ==
    DisposalFiling =>
        /\ Scored40Poor
        /\ parse_call.env.ocr[2] = "poor"
        /\ Invoked("_extract_with_ai")
        /\ Invoked("_generate_summary")
        /\ parse_call.category = <<"Acquisitions & Disposals", FALSE>>

\* C15: for the filing titled "Voluntary Announcement - disposal of
\* subsidiary" with no text yet and an OCR output of 40 characters, the OCR
\* is scored poor, the AI fallback is invoked, the title is categorized
\* "Acquisitions & Disposals" with noise false, and the summary generation
\* is invoked exactly when the fallback returns a text that is not empty.
C15_DisposalEndToEnd ==
    DisposalFiling =>
        /\ Scored40Poor
        /\ parse_call.env.ocr[2] = "poor"
        /\ Invoked("_extract_with_ai")
        /\ Invoked("_generate_summary") <=> parse_call.ai_returned \notin {"", EXC}
        /\ parse_call.category = <<"Acquisitions & Disposals", FALSE>>

\* The scenario with a text layer the provider cleans: all stages run.
C15_Witness ==
    /\ DisposalFiling
    /\ parse_call.env.pypdf = "layer text"
    /\ parse_call.provider = "answered"
    /\ parse_call.ai_returned = "cleaned text"
    /\ Invoked("_generate_summary")
    /\ parse_call.ann_out.parse_status = "completed"
    /\ parse_call.category = <<"Acquisitions & Disposals", FALSE>>

\* The scenario on a scanned file without a text layer: the fallback
\* returns the empty string and no summary is made.
C15_NoSummary ==
    /\ DisposalFiling
    /\ parse_call.env.parse_ai_available
    /\ parse_call.env.pypdf = ""
    /\ parse_call.ai_returned = ""
    /\ ~Invoked("_generate_summary")
    /\ parse_call.ann_out.parse_status = "failed"

(***************************************************************************)
(* The anomaly detector, get_unusual_activity_alerts.                      *)
(*                                                                         *)
(* A date is the number of whole days it lies before now, NoDate for an    *)
(* item without date_published.  The floats of the source are rationals    *)
(* here: lookback_days / 7 is weeks_num / 7 and threshold_factor is        *)
(* num / den, so the comparison of line 464 is cleared of its divisions;   *)
(* round(x, 1) is kept in tenths, rounded to nearest with halves to even,  *)
(* which is what Python prints for the counts modelled.                    *)
(***************************************************************************)
NoDate == 0 - 1

RECENT_DAYS == 7

MAX_ALERTS == 10

\* dt and dt >= cutoff (line 452): the item is dated and inside the window
in_window(item, lookback_days) ==
    item.date_published # NoDate /\ item.date_published <= lookback_days

\* dt >= recent_cutoff (line 456)
in_recent(item, lookback_days) ==
    in_window(item, lookback_days) /\ item.date_published <= RECENT_DAYS

\* company_all[name] and company_recent[name] after the loop of lines 450-457
company_all(categorised, lookback_days, name) ==
    Cardinality({i \in 1..Len(categorised) :
        /\ categorised[i].company_name = name
        /\ in_window(categorised[i], lookback_days)})

company_recent(categorised, lookback_days, name) ==
    Cardinality({i \in 1..Len(categorised) :
        /\ categorised[i].company_name = name
        /\ in_recent(categorised[i], lookback_days)})

\* company_recent.items(): the companies in the order of their first
\* recent item
RECURSIVE recent_companies(_, _, _)
recent_companies(categorised, lookback_days, i) ==
    IF i > Len(categorised) THEN <<>>
    ELSE LET rest == recent_companies(categorised, lookback_days, i + 1)
             name == categorised[i].company_name
         IN  IF in_recent(categorised[i], lookback_days)
             THEN <<name>> \o SelectSeq(rest, LAMBDA n : n # name)
             ELSE rest

\* weeks = max(lookback_days / 7, 1), in sevenths
weeks_num(lookback_days) ==
    IF lookback_days >= 7 THEN lookback_days ELSE 7

\* n / d rounded to the nearest integer, halves to the even one
RoundHalfEven(n, d) ==
    LET q == n \div d
        r == n % d
    IN  IF 2 * r > d \/ (2 * r = d /\ q % 2 = 1) THEN q + 1 ELSE q

\* The condition of line 464 with >= for > in the comparison with the
\* threshold.
alert_condition_at_threshold(recent_count, total, lookback_days, tf) ==
    /\ total > 0
    /\ recent_count * weeks_num(lookback_days) * tf.den >= total * 7 * tf.num
    /\ recent_count >= 3

\* avg_weekly > 0 and recent_count > avg_weekly * threshold_factor and
\* recent_count >= 3, with avg_weekly = total / weeks (lines 463-464)
alert_condition(recent_count, total, lookback_days, tf) ==
    /\ total > 0
    /\ recent_count * weeks_num(lookback_days) * tf.den > total * 7 * tf.num
    /\ recent_count >= 3

\* the dict appended at lines 465-470; the rounded numbers are in tenths
alert_of(company, recent_count, total, lookback_days) ==
    [ company |-> company,
      recent_7d |-> recent_count,
      avg_weekly |-> RoundHalfEven(10 * total * 7, weeks_num(lookback_days)),
      ratio |-> RoundHalfEven(10 * recent_count * weeks_num(lookback_days),
                              7 * total) ]

\* the loop of lines 461-470
RECURSIVE collect_alerts(_, _, _, _, _)
collect_alerts(categorised, lookback_days, tf, order, k) ==
    IF k > Len(order) THEN <<>>
    ELSE LET company == order[k]
             recent_count == company_recent(categorised, lookback_days, company)
             total == company_all(categorised, lookback_days, company)
             rest == collect_alerts(categorised, lookback_days, tf, order, k + 1)
         IN  IF alert_condition(recent_count, total, lookback_days, tf)
             THEN <<alert_of(company, recent_count, total, lookback_days)>> \o rest
             ELSE rest

\* alerts.sort(key=lambda x: x["ratio"], reverse=True): a stable sort, an
\* alert stays behind the alerts of the same ratio that came before it
RECURSIVE sort_by_ratio(_, _)
sort_by_ratio(alerts, n) ==
    IF n = 0 THEN <<>>
    ELSE LET sorted == sort_by_ratio(alerts, n - 1)
             x == alerts[n]
             before == SelectSeq(sorted, LAMBDA y : y.ratio >= x.ratio)
             after == SelectSeq(sorted, LAMBDA y : y.ratio < x.ratio)
         IN  before \o <<x>> \o after

\* get_unusual_activity_alerts(categorised, lookback_days, threshold_factor)
get_unusual_activity_alerts(categorised, lookback_days, tf) ==
    LET order == recent_companies(categorised, lookback_days, 1)
        alerts == collect_alerts(categorised, lookback_days, tf, order, 1)
        sorted == sort_by_ratio(alerts, Len(alerts))
    IN  SubSeq(sorted, 1, IF Len(sorted) < MAX_ALERTS THEN Len(sorted) ELSE MAX_ALERTS)

(***************************************************************************)
(* Inputs: the announcements of a company are given by how many of them    *)
(* are recent, older but in the window, older than the window, undated.    *)
(* The dates sit on the edges: day 0 and day 7, day 8 and the last day of  *)
(* the window, the day after it.                                           *)
(***************************************************************************)
MaxRecent == 4
MaxOlder == 4
ManyCompanies == 11

Item(name, dt) == [company_name |-> name, date_published |-> dt]

CompanyItems(name, recent, older, stale, undated, lookback_days) ==
    [i \in 1..recent |-> Item(name, IF i % 2 = 1 THEN RECENT_DAYS ELSE 0)]
    \o [i \in 1..older |->
          Item(name, IF i % 2 = 1 THEN lookback_days ELSE RECENT_DAYS + 1)]
    \o [i \in 1..stale |-> Item(name, lookback_days + 1)]
    \o [i \in 1..undated |-> Item(name, NoDate)]

\* a busy week: n companies with three recent announcements each, the k-th
\* with k % 3 older ones
RECURSIVE BusyWeek(_, _)
BusyWeek(n, lookback_days) ==
    IF n = 0 THEN <<>>
    ELSE BusyWeek(n - 1, lookback_days)
         \o CompanyItems(n, 3, n % 3, 0, 0, lookback_days)

LookbackDays == {28, 30}

ThresholdFactors == {[num |-> 2, den |-> 1]}

Categorised(lookback_days) ==
    { CompanyItems(1, r, o, s, u, lookback_days)
          \o CompanyItems(2, r2, o2, 0, 0, lookback_days) :
        r \in 0..MaxRecent, o \in 0..MaxOlder, s \in 0..1, u \in 0..1,
        r2 \in {0, 3}, o2 \in {0, 3} }
    \cup { BusyWeek(n, lookback_days) : n \in {ManyCompanies - 1, ManyCompanies} }

GetUnusualActivityAlerts ==
    /\ anomaly_call = NoCall
    /\ \E lookback_days \in LookbackDays : \E tf \in ThresholdFactors :
       \E categorised \in Categorised(lookback_days) :
          anomaly_call' =
             [ op |-> "get_unusual_activity_alerts",
               categorised |-> categorised,
               lookback_days |-> lookback_days,
               threshold_factor |-> tf,
               returned |-> get_unusual_activity_alerts(categorised, lookback_days, tf) ]
    /\ UNCHANGED <<catVars, ocrVars, parseVars, companyVars, pureVars, procVars>>
    /\ UNCHANGED <<parse_call, ocr_call, sentiment_call, enrich_call>>

InitAnomaly == AuxIdle /\ CatIdle /\ OcrIdle /\ ParseIdle /\ CompanyIdle

NextAnomaly == GetUnusualActivityAlerts

SpecAnomaly == InitAnomaly /\ [][NextAnomaly]_vars

(***************************************************************************)
(* The statement of the detector, from the announcements of the call.      *)
(***************************************************************************)
AnomalyCalled == anomaly_call # NoCall

CompaniesOf(categorised) ==
    {categorised[i].company_name : i \in 1..Len(categorised)}

\* the announcements of company c in the trailing 7 days
Trailing7(c) ==
    Cardinality({i \in 1..Len(anomaly_call.categorised) :
        /\ anomaly_call.categorised[i].company_name = c
        /\ anomaly_call.categorised[i].date_published # NoDate
        /\ anomaly_call.categorised[i].date_published <= 7})

\* the announcements of company c in the lookback window
WindowCount(c) ==
    Cardinality({i \in 1..Len(anomaly_call.categorised) :
        /\ anomaly_call.categorised[i].company_name = c
        /\ anomaly_call.categorised[i].date_published # NoDate
        /\ anomaly_call.categorised[i].date_published <= anomaly_call.lookback_days})

\* count >= 3 and count > threshold_factor * (window count / (lookback_days / 7))
Unusual(c) ==
    /\ Trailing7(c) >= 3
    /\ Trailing7(c) * anomaly_call.lookback_days * anomaly_call.threshold_factor.den
          > anomaly_call.threshold_factor.num * WindowCount(c) * 7

Alerted(c) ==
    \E k \in 1..Len(anomaly_call.returned) : anomaly_call.returned[k].company = c

C16_Truncated ==
    /\ AnomalyCalled
    /\ Cardinality({c \in CompaniesOf(anomaly_call.categorised) : Unusual(c)}) = 11
    /\ Len(anomaly_call.returned) = 10

(***************************************************************************)
(* The sentiment scorer, get_sentiment_summary.                            *)
(*                                                                         *)
(* A summary is a sequence of words (write-down counts as one); a keyword  *)
(* pattern, enclosed in \b ... \b and case-insensitive, matches a word     *)
(* that equals one of its alternatives when put in lower case.  A score,   *)
(* a float in the source, is kept as a whole number of SCALE-ths; SCALE    *)
(* is a multiple of every number of hits that occurs.  Averages are exact  *)
(* here; the floats of the source agree with them for up to two summaries  *)
(* in a call.                                                              *)
(***************************************************************************)
POSITIVE_WORDS ==
    { "growth", "increase", "profit", "gain", "strong", "positive",
      "improvement", "exceed", "outperform", "upgrade", "beat", "record",
      "successful", "dividend", "expansion", "milestone", "optimistic",
      "recovery", "robust", "surplus", "confident", "opportunity", "upside" }

NEGATIVE_WORDS ==
    { "loss", "decline", "decrease", "negative", "warning", "risk", "concern",
      "impairment", "writedown", "write-down", "downgrade", "underperform",
      "deteriorat", "weak", "challenge", "uncertainty", "cautionary",
      "default", "restructur", "retrench", "suspend", "liquidat", "fraud",
      "irregular" }

\* re.IGNORECASE on the words of the summaries below
lower_word(w) ==
    CASE w = "Strong"  -> "strong"
      [] w = "PROFIT"  -> "profit"
      [] w = "Loss"    -> "loss"
      [] w = "Record"  -> "record"
      [] w = "The"     -> "the"
      [] OTHER         -> w

\* len(positive_words.findall(summary)), len(negative_words.findall(summary))
pos_hits(summary) ==
    Cardinality({i \in 1..Len(summary) : lower_word(summary[i]) \in POSITIVE_WORDS})

neg_hits(summary) ==
    Cardinality({i \in 1..Len(summary) : lower_word(summary[i]) \in NEGATIVE_WORDS})

SCALE == 3 * 4 * 5

\* lines 568-572: score = 0.0 if total == 0 else (pos - neg) / total
score_of(summary) ==
    LET pos == pos_hits(summary)
        neg == neg_hits(summary)
        total == pos + neg
    IN  IF total = 0 THEN 0
        ELSE ((pos - neg) * SCALE) \div total

\* `if not summary: continue` (lines 563-564): None and "" are skipped
analysed(item) == item.ai_summary # <<>>

RECURSIVE scores_of(_, _)
scores_of(items, i) ==
    IF i > Len(items) THEN <<>>
    ELSE IF analysed(items[i])
    THEN <<score_of(items[i].ai_summary)>> \o scores_of(items, i + 1)
    ELSE scores_of(items, i + 1)

RECURSIVE SumSeq(_, _)
SumSeq(s, i) == IF i > Len(s) THEN 0 ELSE s[i] + SumSeq(s, i + 1)

\* "Positive" if avg >= 0.2 else ("Negative" if avg <= -0.2 else "Neutral")
sentiment_label_inclusive(sum, n) ==
    IF 5 * sum >= SCALE * n THEN "Positive"
    ELSE IF 5 * sum <= 0 - SCALE * n THEN "Negative"
    ELSE "Neutral"

\* "Positive" if avg > 0.2 else ("Negative" if avg < -0.2 else "Neutral"),
\* for avg = sum / n in SCALE-ths, n >= 1 (lines 595 and 601)
sentiment_label(sum, n) ==
    IF 5 * sum > SCALE * n THEN "Positive"
    ELSE IF 5 * sum < 0 - SCALE * n THEN "Negative"
    ELSE "Neutral"

\* round(avg, 2), in hundredths
round2(sum, n) ==
    IF sum >= 0 THEN RoundHalfEven(100 * sum, SCALE * n)
    ELSE 0 - RoundHalfEven(100 * (0 - sum), SCALE * n)

\* company_sentiment.items(): the companies in the order of their first
\* analysed item
RECURSIVE sentiment_companies(_, _)
sentiment_companies(items, i) ==
    IF i > Len(items) THEN <<>>
    ELSE LET rest == sentiment_companies(items, i + 1)
             name == items[i].company_name
         IN  IF analysed(items[i])
             THEN <<name>> \o SelectSeq(rest, LAMBDA n : n # name)
             ELSE rest

\* the dict appended at lines 591-596
company_score(items, name) ==
    LET s_list == scores_of(SelectSeq(items, LAMBDA it : it.company_name = name), 1)
    IN  [ company |-> name,
          avg_sentiment |-> round2(SumSeq(s_list, 1), Len(s_list)),
          count |-> Len(s_list),
          label |-> sentiment_label(SumSeq(s_list, 1), Len(s_list)) ]

\* company_scores.sort(key=lambda x: x["avg_sentiment"], reverse=True)
RECURSIVE sort_by_sentiment(_, _)
sort_by_sentiment(cs, n) ==
    IF n = 0 THEN <<>>
    ELSE LET sorted == sort_by_sentiment(cs, n - 1)
             x == cs[n]
         IN  SelectSeq(sorted, LAMBDA y : y.avg_sentiment >= x.avg_sentiment)
             \o <<x>>
             \o SelectSeq(sorted, LAMBDA y : y.avg_sentiment < x.avg_sentiment)

MAX_COMPANY_SCORES == 15

\* get_sentiment_summary(announcements_with_summaries)
get_sentiment_summary(items) ==
    LET scores == scores_of(items, 1)
        n == Len(scores)
        sum == SumSeq(scores, 1)
        positive_count == Cardinality({k \in 1..n : 5 * scores[k] > SCALE})
        negative_count == Cardinality({k \in 1..n : 5 * scores[k] < 0 - SCALE})
        names == sentiment_companies(items, 1)
        company_scores == [k \in 1..Len(names) |-> company_score(items, names[k])]
        sorted == sort_by_sentiment(company_scores, Len(company_scores))
    IN  [ overall_score |-> IF n = 0 THEN 0 ELSE round2(sum, n),
          overall_label |-> IF n = 0 THEN "Neutral" ELSE sentiment_label(sum, n),
          positive |-> positive_count,
          negative |-> negative_count,
          neutral |-> n - positive_count - negative_count,
          total_analysed |-> n,
          company_scores |->
              SubSeq(sorted, 1, IF Len(sorted) < MAX_COMPANY_SCORES
                                THEN Len(sorted) ELSE MAX_COMPANY_SCORES) ]

(***************************************************************************)
(* Inputs: the calls with up to MaxItems items over two companies and the  *)
(* summaries below, and a call with more companies than are listed.        *)
(***************************************************************************)
MaxItems == 2

S_none      == <<>>
S_plain     == <<"The", "board", "met", "deteriorating">>
S_positive  == <<"Strong", "growth", "and", "Record", "PROFIT">>
S_negative  == <<"Loss", "and", "impairment">>
S_three_two == <<"growth", "profit", "dividend", "risk", "loss">>
S_two_three == <<"growth", "profit", "write-down", "risk", "Loss">>
S_two_one   == <<"recovery", "upside", "weak">>
S_one_one   == <<"gain", "fraud">>

Summaries ==
    { S_none, S_plain, S_positive, S_negative, S_three_two, S_two_three,
      S_two_one, S_one_one }

SentimentItem(name, summary) == [company_name |-> name, ai_summary |-> summary]

ManyScored == [k \in 1..(MAX_COMPANY_SCORES + 1) |-> SentimentItem(k, S_positive)]

SentimentInputs ==
    SeqsUpTo({SentimentItem(c, s) : c \in {1, 2}, s \in Summaries}, MaxItems)
    \cup {ManyScored}

GetSentimentSummary ==
    /\ sentiment_call = NoCall
    /\ \E items \in SentimentInputs :
          sentiment_call' =
             [ op |-> "get_sentiment_summary",
               items |-> items,
               scores |-> scores_of(items, 1),
               returned |-> get_sentiment_summary(items) ]
    /\ UNCHANGED <<catVars, ocrVars, parseVars, companyVars, pureVars, procVars>>
    /\ UNCHANGED <<parse_call, ocr_call, anomaly_call, enrich_call>>

InitSentiment == AuxIdle /\ CatIdle /\ OcrIdle /\ ParseIdle /\ CompanyIdle

NextSentiment == GetSentimentSummary

SpecSentiment == InitSentiment /\ [][NextSentiment]_vars

SentimentCalled == sentiment_call # NoCall

\* the analysed summaries of the call, in their order
AnalysedSummaries ==
    LET kept == SelectSeq(sentiment_call.items, LAMBDA it : it.ai_summary # <<>>)
    IN  [k \in 1..Len(kept) |-> kept[k].ai_summary]

\* the label of the company whose only summary is the k-th analysed one
OnlySummaryLabel(k) ==
    LET kept == SelectSeq(sentiment_call.items, LAMBDA it : it.ai_summary # <<>>)
        name == kept[k].company_name
        cs == sentiment_call.returned.company_scores
    IN  IF Cardinality({j \in 1..Len(kept) : kept[j].company_name = name}) = 1
           /\ \E j \in 1..Len(cs) : cs[j].company = name
        THEN (CHOOSE c \in {cs[j] : j \in 1..Len(cs)} : c.company = name).label
        ELSE "not listed alone"

\* C17: the scorer gives a summary the score (positive hits - negative
\* hits) / (positive hits + negative hits), and 0.0 when it has no hit; a
\* summary with positive hits only scores 1.0 and is labelled Positive, one
\* without hits scores 0.0 and is labelled Neutral; Positive is given only
\* for a score strictly above 0.2 and Negative only for one strictly below
\* -0.2, for a summary, for a company and overall.
C17_SentimentScore ==
    SentimentCalled =>
        LET ss == AnalysedSummaries
            sc == sentiment_call.scores
            r == sentiment_call.returned
            n == Len(sc)
            label(k) == OnlySummaryLabel(k)
        IN  /\ Len(sc) = Len(ss)
            /\ \A k \in 1..n :
                  LET pos == pos_hits(ss[k])
                      neg == neg_hits(ss[k])
                  IN  /\ pos + neg = 0 => sc[k] = 0
                      /\ pos + neg > 0 => sc[k] * (pos + neg) = (pos - neg) * SCALE
                      /\ (pos > 0 /\ neg = 0) =>
                            sc[k] = SCALE /\ label(k) \in {"Positive", "not listed alone"}
                      /\ pos + neg = 0 =>
                            label(k) \in {"Neutral", "not listed alone"}
                      /\ label(k) = "Positive" => 5 * sc[k] > SCALE
                      /\ label(k) = "Negative" => 5 * sc[k] < 0 - SCALE
                      /\ label(k) = "Neutral" =>
                            5 * sc[k] <= SCALE /\ 5 * sc[k] >= 0 - SCALE
            /\ r.positive = Cardinality({k \in 1..n : 5 * sc[k] > SCALE})
            /\ r.negative = Cardinality({k \in 1..n : 5 * sc[k] < 0 - SCALE})
            /\ r.positive + r.negative + r.neutral = n
            /\ r.overall_label = "Positive" => 5 * SumSeq(sc, 1) > SCALE * n
            /\ r.overall_label = "Negative" => 5 * SumSeq(sc, 1) < 0 - SCALE * n

\* Company 1 has a summary with three positive and two negative hits, which
\* scores exactly 0.2 and is Neutral; company 2 has one with positive hits
\* only, which scores 1.0 and is Positive.
C17_Witness ==
    /\ SentimentCalled
    /\ Len(sentiment_call.items) = 2
    /\ sentiment_call.items[1] = SentimentItem(1, S_three_two)
    /\ sentiment_call.items[2] = SentimentItem(2, S_positive)
    /\ 5 * sentiment_call.scores[1] = SCALE
    /\ sentiment_call.scores[2] = SCALE
    /\ OnlySummaryLabel(1) = "Neutral"
    /\ OnlySummaryLabel(2) = "Positive"
    /\ sentiment_call.returned.positive = 1
    /\ sentiment_call.returned.neutral = 1
    /\ sentiment_call.returned.overall_label = "Positive"

(***************************************************************************)
(* Linking filings to companies: add_company_sens called directly and by   *)
(* enrich_from_announcement of an enricher without an AI client, one call  *)
(* after the other on the connection of the store.                         *)
(***************************************************************************)
AddCompanySens ==
    \E company_id \in CompanyIds, sens_number \in SensNumbers :
        LET rows == add_company_sens(company_sens, company_id, sens_number) IN
        /\ Len(rows) <= MaxLinks
        /\ company_sens' = rows
        /\ last_call' = [op |-> "add_company_sens", company_id |-> company_id,
                         sens_number |-> sens_number,
                         existing |-> [company_id |-> company_id,
                                       sens_number |-> sens_number]
                                         \in Links(company_sens)]
        /\ UNCHANGED <<companies, directors, sponsor_history, ticker_file>>
        /\ UNCHANGED <<catVars, ocrVars, parseVars, auxVars>>

EnrichWithoutClient ==
    \E ann \in Announcements :
        \E r \in {enrich_from_announcement(DB, ann, NO_CLIENT, m, f) :
                    m \in MergeResponses, f \in BOOLEAN} :
            /\ Len(r.db.sponsor_history) <= MaxHistory
            /\ Len(r.db.company_sens) <= MaxLinks
            /\ companies' = r.db.companies
            /\ directors' = r.db.directors
            /\ sponsor_history' = r.db.sponsor_history
            /\ company_sens' = r.db.company_sens
            /\ ticker_file' = r.db.ticker_file
            /\ last_call' = [op |-> "enrich_from_announcement", ann |-> ann,
                             response |-> NO_CLIENT,
                             company_id |-> r.company_id, raised |-> r.raised]
            /\ UNCHANGED <<catVars, ocrVars, parseVars, auxVars>>

InitLinks == CompanyIdle /\ CatIdle /\ OcrIdle /\ ParseIdle /\ AuxIdle

NextLinks == AddCompanySens \/ EnrichWithoutClient

SpecLinks == InitLinks /\ [][NextLinks]_vars

\* the rows of company_sens that link the company to the filing
LinkCount(company_id, sens_number) ==
    Cardinality({i \in 1..Len(company_sens) :
        /\ company_sens[i].company_id = company_id
        /\ company_sens[i].sens_number = sens_number})

\* C14: linking a filing to a company is idempotent: after any number of
\* add_company_sens calls and of enrichments for the same company and
\* filing there is exactly one link between them, and no pair of a company
\* and a filing is ever linked twice.
C14_OneLinkPerFiling ==
    /\ last_call.op = "add_company_sens" =>
          LinkCount(last_call.company_id, last_call.sens_number) = 1
    /\ last_call.op = "enrich_from_announcement" =>
          LinkCount(last_call.company_id, last_call.ann.sens_number) = 1
    /\ \A c \in CompanyIds, s \in SensNumbers : LinkCount(c, s) <= 1

\* After an enrichment, add_company_sens was called again for the oldest of
\* three links: still one row for it.
C14_Witness ==
    /\ last_call.op = "add_company_sens"
    /\ last_call.existing
    /\ Len(companies) >= 1
    /\ Len(company_sens) = MaxLinks
    /\ company_sens[1] = [company_id |-> last_call.company_id,
                          sens_number |-> last_call.sens_number]
    /\ LinkCount(last_call.company_id, last_call.sens_number) = 1

(***************************************************************************)
(* One call of _extract_with_ocr with the places where its body can        *)
(* raise: the rasterization (convert_from_path), the recognition of a page *)
(* (image_to_string) and the scoring (_assess_ocr_quality).                *)
(***************************************************************************)
\* the places where the call on the document ps can raise
FaultsOf(ps) ==
    {"none", "convert_from_path", "_assess_ocr_quality"}
    \cup (IF Len(ps) > 0 THEN {"image_to_string"} ELSE {})

\* The body of the try statement of _extract_with_ocr without its handler.
extract_with_ocr_no_handler(ps, fault) ==
    IF fault # "none"
    THEN [text |-> <<>>, quality |-> "", raised |-> TRUE]
    ELSE [text |-> FullText(ps, 1),
          quality |-> assess_ocr_quality(FullText(ps, 1), TotalChars(ps, 1)),
          raised |-> FALSE]

\* _extract_with_ocr(pdf_path), lines 117-208: the try statement and its
\* handler `except Exception: return "", "poor"`
extract_with_ocr(ps, fault) ==
    IF fault # "none"
    THEN [text |-> <<>>, quality |-> "poor", raised |-> FALSE]
    ELSE [text |-> FullText(ps, 1),
          quality |-> assess_ocr_quality(FullText(ps, 1), TotalChars(ps, 1)),
          raised |-> FALSE]

\* parse_sens_pdf, lines 89-98: where the pair returned by the OCR leads
stage_after_ocr(ocr_quality) ==
    IF ocr_quality = "good" THEN "_generate_summary" ELSE "_extract_with_ai"

ExtractWithOcrCall ==
    /\ ocr_call = NoCall
    /\ \E ps \in Docs : \E fault \in FaultsOf(ps) :
          LET r == extract_with_ocr(ps, fault) IN
          ocr_call' = [ op |-> "_extract_with_ocr", pages |-> ps, fault |-> fault,
                        returned |-> <<r.text, r.quality>>, raised |-> r.raised,
                        next |-> IF r.raised THEN "handler of parse_sens_pdf"
                                 ELSE stage_after_ocr(r.quality) ]
    /\ UNCHANGED <<catVars, ocrVars, parseVars, companyVars, pureVars, procVars>>
    /\ UNCHANGED <<parse_call, anomaly_call, sentiment_call, enrich_call>>

InitOcrCall == AuxIdle /\ CatIdle /\ OcrIdle /\ ParseIdle /\ CompanyIdle

NextOcrCall == ExtractWithOcrCall

SpecOcrCall == InitOcrCall /\ [][NextOcrCall]_vars

\* C13: _extract_with_ocr never raises: an exception in the rasterization,
\* in the recognition of a page or in the scoring makes it return the pair
\* ("", "poor"), with which parse_sens_pdf goes to the AI fallback; without
\* an exception it returns the text with its score.
C13_OcrNeverRaises ==
    ocr_call # NoCall =>
        /\ ~ocr_call.raised
        /\ ocr_call.returned[2] \in {"good", "poor"}
        /\ ocr_call.fault # "none" =>
              /\ ocr_call.returned = << <<>>, "poor" >>
              /\ ocr_call.next = "_extract_with_ai"
        /\ ocr_call.returned[2] = "poor" => ocr_call.next = "_extract_with_ai"

\* The recognition raised on a document whose text would have scored good.
C13_Witness ==
    /\ ocr_call # NoCall
    /\ ocr_call.fault = "image_to_string"
    /\ assess_ocr_quality(FullText(ocr_call.pages, 1),
                          TotalChars(ocr_call.pages, 1)) = "good"
    /\ ocr_call.returned = << <<>>, "poor" >>
    /\ ~ocr_call.raised
    /\ ocr_call.next = "_extract_with_ai"

(***************************************************************************)
(* One call of enrich_from_announcement with one of its steps failing.      *)
(*                                                                         *)
(* fail_at names the step that raises when it is reached: a store call     *)
(* (upsert_company, add_company_sens, set_sponsor, the upsert of the       *)
(* website), _ai_enrich, or the file access of _auto_add_ticker.  A store  *)
(* call that raises leaves its table as it was.                            *)
(***************************************************************************)
STEPS ==
    <<"upsert_company", "add_company_sens", "set_sponsor", "upsert_website",
      "_ai_enrich", "_auto_add_ticker">>

\* lines 106-113 after the AI step: the ticker step
ticker_step(db, jse_code, file_ok, fail_at, executed, company_id) ==
    LET found == IF jse_code = ""
                 THEN get_company_by_jse_code(db.companies, "")
                 ELSE 0
        final_code == IF jse_code # "" THEN jse_code
                      ELSE IF found # 0 THEN db.companies[found].jse_code
                      ELSE ""
    IN  IF final_code = ""
        THEN [db |-> db, raised |-> FALSE, executed |-> executed,
              company_id |-> company_id]
        ELSE [db |-> [db EXCEPT !.ticker_file =
                        auto_add_ticker(@, final_code,
                            file_ok /\ fail_at # "_auto_add_ticker")],
              raised |-> FALSE,
              executed |-> Append(executed, "_auto_add_ticker"),
              company_id |-> company_id]

\* lines 99-104: the AI step inside its try statement
ai_step(db, company_id, ann, jse_code, response, merge, file_ok, fail_at, executed) ==
    IF ann.pdf_content # <<>> /\ response # NO_CLIENT
    THEN ticker_step(
             IF fail_at = "_ai_enrich" THEN db
             ELSE ai_block(db, company_id, ann, response, merge, file_ok).db,
             jse_code, file_ok, fail_at, Append(executed, "_ai_enrich"),
             company_id)
    ELSE ticker_step(db, jse_code, file_ok, fail_at, executed, company_id)

\* enrich_from_announcement (lines 78-113) with the step fail_at raising:
\* the tables it leaves, whether the exception left it, and the steps
\* that were entered
enrich_with_fault(db, ann, response, merge_response, file_ok, fail_at) ==
    LET jse_code == extract_jse_code_from_name(ann.company_name)
        u == upsert_company(db.companies, ann.company_name, jse_code, "")
        company_id == u.id
        e1 == <<"upsert_company">>
        db1 == [db EXCEPT !.companies = u.companies]
        links == add_company_sens(db.company_sens, company_id, ann.sens_number)
        e2 == Append(e1, "add_company_sens")
        db2 == [db1 EXCEPT !.company_sens = links]
        sponsor == extract_sponsor(ann)
        s == IF sponsor # ""
             THEN set_sponsor(u.companies, db.sponsor_history, company_id,
                              sponsor, ann.sens_number)
             ELSE [companies |-> u.companies,
                   sponsor_history |-> db.sponsor_history]
        e3 == IF sponsor # "" THEN Append(e2, "set_sponsor") ELSE e2
        db3 == [db2 EXCEPT !.companies = s.companies,
                           !.sponsor_history = s.sponsor_history]
        website == extract_website(ann)
        c2 == IF website # ""
              THEN upsert_company(s.companies, ann.company_name, "", website).companies
              ELSE s.companies
        e4 == IF website # "" THEN Append(e3, "upsert_website") ELSE e3
        db4 == [db3 EXCEPT !.companies = c2]
    IN  IF fail_at = "upsert_company"
        THEN [db |-> db, raised |-> TRUE, executed |-> e1, company_id |-> 0]
        ELSE IF fail_at = "add_company_sens"
        THEN [db |-> db1, raised |-> TRUE, executed |-> e2,
              company_id |-> company_id]
        ELSE IF fail_at = "set_sponsor" /\ sponsor # ""
        THEN [db |-> db2, raised |-> TRUE, executed |-> e3,
              company_id |-> company_id]
        ELSE IF fail_at = "upsert_website" /\ website # ""
        THEN [db |-> db3, raised |-> TRUE, executed |-> e4,
              company_id |-> company_id]
        ELSE ai_step(db4, company_id, ann, jse_code, response, merge_response,
                     file_ok, fail_at, e4)

\* a filing with the sponsor and the website in its text, of a company
\* whose name carries its code: every step applies to it
A_full ==
    [sens_number |-> "S2", company_name |-> "Acme Ltd (ACM)",
     pdf_content |-> <<L_plain, L_sponsor, L_url>>]

StepAnnouncements == Announcements \cup {A_full}

StepResponses == {NO_CLIENT, AI_EXC, R_prose, R_A}

FailAt == {"none"} \cup {STEPS[k] : k \in 1..Len(STEPS)}

EnrichWithFault ==
    /\ enrich_call = NoCall
    /\ \E ann \in StepAnnouncements, response \in StepResponses,
          m \in MergeResponses, f \in BOOLEAN, fail_at \in FailAt :
       \E r \in {enrich_with_fault(DB, ann, response, m, f, fail_at)} :
       \E ok \in {enrich_with_fault(DB, ann, response, m, f, "none")} :
              /\ \/ fail_at = "none"
                 \/ \E k \in 1..Len(ok.executed) : ok.executed[k] = fail_at
              /\ companies' = r.db.companies
              /\ directors' = r.db.directors
              /\ sponsor_history' = r.db.sponsor_history
              /\ company_sens' = r.db.company_sens
              /\ ticker_file' = r.db.ticker_file
              /\ enrich_call' =
                    [ op |-> "enrich_from_announcement", ann |-> ann,
                      response |-> response, merge_response |-> m,
                      file_ok |-> f, fail_at |-> fail_at,
                      applicable |-> ok.executed,
                      executed |-> r.executed, raised |-> r.raised,
                      company_id |-> r.company_id ]
    /\ UNCHANGED <<last_call, catVars, ocrVars, parseVars, pureVars, procVars>>
    /\ UNCHANGED <<parse_call, ocr_call, anomaly_call, sentiment_call>>

InitSteps == CompanyIdle /\ CatIdle /\ OcrIdle /\ ParseIdle /\ AuxIdle

NextSteps == EnrichWithFault

SpecSteps == InitSteps /\ [][NextSteps]_vars

EmptyDB ==
    [companies |-> <<>>, directors |-> <<>>, sponsor_history |-> <<>>,
     company_sens |-> <<>>, ticker_file |-> {}]

\* Without a failing step the call is enrich_from_announcement.
FaultFreeIsEnrich ==
    (enrich_call # NoCall /\ enrich_call.fail_at = "none") =>
        /\ DB = enrich_from_announcement(EmptyDB, enrich_call.ann,
                  enrich_call.response, enrich_call.merge_response,
                  enrich_call.file_ok).db
        /\ ~enrich_call.raised

\* C18: each step of enrich_from_announcement is fault-tolerant on its own:
\* when one step fails, the call returns without raising and every other
\* step that the filing calls for is still entered.
C18_EachStepFaultTolerant ==
    enrich_call # NoCall =>
        /\ ~enrich_call.raised
        /\ enrich_call.executed = enrich_call.applicable

\* The failure of the AI step or of the ticker file is tolerated: the call
\* returns and the steps after it are entered.
C18_GuardedSteps ==
    (enrich_call # NoCall
        /\ enrich_call.fail_at \in {"none", "_ai_enrich", "_auto_add_ticker"}) =>
        /\ ~enrich_call.raised
        /\ enrich_call.executed = enrich_call.applicable

\* The store raised in add_company_sens on a filing that names a sponsor
\* and a website and has text for the AI, for a company with a code: the
\* exception left enrich_from_announcement and nothing after the link was
\* done.
C18_Aborted ==
    /\ enrich_call # NoCall
    /\ enrich_call.ann = A_full
    /\ enrich_call.response = R_A
    /\ enrich_call.fail_at = "add_company_sens"
    /\ enrich_call.raised
    /\ enrich_call.applicable = STEPS
    /\ enrich_call.executed = <<"upsert_company", "add_company_sens">>
    /\ Len(companies) = 1
    /\ companies[1].sponsor = ""
    /\ companies[1].website = ""
    /\ company_sens = <<>>
    /\ ticker_file = {}

(***************************************************************************)
(* One call of _extract_with_ai (pdf_parser.py lines 295-349) or of        *)
(* _generate_summary (lines 370-413), recorded with the calls it made to   *)
(* the text-layer libraries and to the provider, in their order.           *)
(***************************************************************************)
\* What one library does with the file: it raises (a failed import
\* included, the import being inside the try), finds no text, finds only
\* white space, or finds text.
PlumberOutcomes == {EXC, "", " ", "layer text"}
PyPDF2Outcomes == {EXC, "", " ", "generic text"}

\* _extract_with_pypdf with the generic library tried first
extract_with_pypdf_generic_first(plumber, pypdf2) ==
    IF pypdf2 # EXC /\ Strip(pypdf2) # ""
    THEN [returned |-> Strip(pypdf2), tried |-> <<"PyPDF2">>]
    ELSE [returned |-> IF plumber # EXC /\ Strip(plumber) # ""
                       THEN Strip(plumber) ELSE "",
          tried |-> <<"PyPDF2", "pdfplumber">>]

\* _extract_with_pypdf(pdf_path), lines 252-293: pdfplumber in a try of its
\* own, then PyPDF2 in a try of its own, then "".
extract_with_pypdf(plumber, pypdf2) ==
    IF plumber # EXC /\ Strip(plumber) # ""
    THEN [returned |-> Strip(plumber), tried |-> <<"pdfplumber">>]
    ELSE [returned |-> IF pypdf2 # EXC /\ Strip(pypdf2) # ""
                       THEN Strip(pypdf2) ELSE "",
          tried |-> <<"pdfplumber", "PyPDF2">>]

\* line 312: `not ocr_text or len(ocr_text.strip()) < 50`
needs_text_layer(ocr_text) == ocr_text = "" \/ TextLen(Strip(ocr_text)) < 50

\* _extract_with_ai with the availability check made after the text-layer
\* step instead of first
extract_with_ai_late_check(ocr_text, available, plumber, pypdf2, answer) ==
    LET layer == extract_with_pypdf(plumber, pypdf2)
        needs == needs_text_layer(ocr_text)
        before == IF needs THEN layer.tried ELSE <<>>
        text == IF needs THEN layer.returned ELSE ocr_text
    IN  IF needs /\ layer.returned = ""
        THEN [returned |-> "", calls |-> before]
        ELSE IF ~available
        THEN [returned |-> text, calls |-> before]
        ELSE [returned |-> IF answer = EXC THEN text ELSE Strip(answer),
              calls |-> before \o <<"provider">>]

\* _extract_with_ai with the provider call issued again after it raised
extract_with_ai_retrying(ocr_text, available, plumber, pypdf2, answer) ==
    IF ~available THEN [returned |-> ocr_text, calls |-> <<>>]
    ELSE LET layer == extract_with_pypdf(plumber, pypdf2)
             needs == needs_text_layer(ocr_text)
             before == IF needs THEN layer.tried ELSE <<>>
             text == IF needs THEN layer.returned ELSE ocr_text
         IN  IF needs /\ layer.returned = ""
             THEN [returned |-> "", calls |-> before]
             ELSE IF answer = EXC
             THEN [returned |-> text, calls |-> before \o <<"provider", "provider">>]
             ELSE [returned |-> Strip(answer), calls |-> before \o <<"provider">>]

\* _extract_with_ai(pdf_path, ocr_text), lines 295-349, with the calls made
extract_with_ai_traced(ocr_text, available, plumber, pypdf2, answer) ==
    IF ~available THEN [returned |-> ocr_text, calls |-> <<>>]
    ELSE LET layer == extract_with_pypdf(plumber, pypdf2)
             needs == needs_text_layer(ocr_text)
             before == IF needs THEN layer.tried ELSE <<>>
             text == IF needs THEN layer.returned ELSE ocr_text
         IN  IF needs /\ layer.returned = ""
             THEN [returned |-> "", calls |-> before]
             ELSE [returned |-> IF answer = EXC THEN text ELSE Strip(answer),
                   calls |-> before \o <<"provider">>]

\* _generate_summary(content, announcement), lines 370-413, with the calls
\* made
generate_summary_traced(content, available, answer) ==
    IF ~available THEN [returned |-> "", calls |-> <<>>]
    ELSE [returned |-> IF answer = EXC THEN "" ELSE Strip(answer),
          calls |-> <<"provider">>]

\* The texts _extract_with_ai is given: what the OCR returned as poor.
FallbackTexts == {"", " ", "ocr short", "ocr text"}

\* The contents a summary is asked of.
SummaryContents == {" ", "ocr text", "layer text", "cleaned text"}

\* How many of the calls went to the named callee
CallsTo(calls, callee) == Cardinality({i \in 1..Len(calls) : calls[i] = callee})

\* _extract_with_ai is called.
ExtractWithAi ==
    /\ parse_call = NoCall
    /\ \E t \in FallbackTexts : \E available \in BOOLEAN :
       \E plumber \in PlumberOutcomes : \E pypdf2 \in PyPDF2Outcomes :
       \E answer \in ParseProviderAnswers :
       \E r \in {extract_with_ai_traced(t, available, plumber, pypdf2, answer)} :
          parse_call' = [ op |-> "_extract_with_ai", text |-> t,
                          available |-> available, plumber |-> plumber,
                          pypdf2 |-> pypdf2, answer |-> answer,
                          returned |-> r.returned, calls |-> r.calls,
                          agrees |-> r.returned = extract_with_ai(t,
                              [parse_ai_available |-> available,
                               pypdf |-> extract_with_pypdf(plumber, pypdf2).returned,
                               parse_answer |-> answer]) ]
    /\ UNCHANGED <<catVars, ocrVars, parseVars, companyVars, pureVars, procVars>>
    /\ UNCHANGED <<ocr_call, anomaly_call, sentiment_call, enrich_call>>

\* _generate_summary is called.
GenerateSummary ==
    /\ parse_call = NoCall
    /\ \E c \in SummaryContents : \E available \in BOOLEAN :
       \E answer \in SummaryProviderAnswers :
       \E r \in {generate_summary_traced(c, available, answer)} :
          parse_call' = [ op |-> "_generate_summary", text |-> c,
                          available |-> available, answer |-> answer,
                          returned |-> r.returned, calls |-> r.calls,
                          agrees |-> r.returned = generate_summary(c,
                              [summary_ai_available |-> available,
                               summary_answer |-> answer]) ]
    /\ UNCHANGED <<catVars, ocrVars, parseVars, companyVars, pureVars, procVars>>
    /\ UNCHANGED <<ocr_call, anomaly_call, sentiment_call, enrich_call>>

InitFallback == AuxIdle /\ CatIdle /\ OcrIdle /\ ParseIdle /\ CompanyIdle

NextFallback == ExtractWithAi \/ GenerateSummary

SpecFallback == InitFallback /\ [][NextFallback]_vars

FallbackCalled == parse_call # NoCall /\ parse_call.op = "_extract_with_ai"

\* C21: when no AI client is available for the clean-up, _extract_with_ai
\* makes no provider call and returns the text it was given as it was,
\* whatever the text, the empty text included; the traced function agrees
\* with the function the parse uses.
C21_NoClientReturnsInput ==
    (FallbackCalled /\ ~parse_call.available) =>
        /\ CallsTo(parse_call.calls, "provider") = 0
        /\ parse_call.returned = parse_call.text
        /\ parse_call.agrees

\* Without a client the empty text comes back empty, although the text
\* layer and the provider would have given text.
C21_Witness ==
    /\ FallbackCalled
    /\ ~parse_call.available
    /\ parse_call.text = ""
    /\ parse_call.plumber = "layer text"
    /\ parse_call.answer = " cleaned text "
    /\ parse_call.returned = ""
    /\ parse_call.calls = <<>>

NoText(outcome) == outcome = EXC \/ Strip(outcome) = ""

C22_GivesUp ==
    /\ FallbackCalled
    /\ parse_call.available
    /\ parse_call.text = ""
    /\ parse_call.plumber = " "
    /\ parse_call.pypdf2 = EXC
    /\ parse_call.calls = <<"pdfplumber", "PyPDF2">>
    /\ parse_call.returned = ""

\* the summary stage ran and ended without a summary: no client was
\* available, or the provider raised
SummaryFailed ==
    /\ Called
    /\ Invoked("_generate_summary")
    /\ parse_call.env.unexpected # "_summary_ai_available"
    /\ \/ ~parse_call.env.summary_ai_available
       \/ parse_call.env.summary_answer = EXC

\* C24: when _generate_summary has no client or its provider raises, the
\* summary of the returned announcement is "", the announcement keeps the
\* text extracted for it, and its status is still completed: nothing but
\* the empty summary shows the failure.
C24_SummaryFailureKeepsText ==
    SummaryFailed =>
        /\ parse_call.ann_out.ai_summary = ""
        /\ parse_call.ann_out.pdf_content = MergedText
        /\ parse_call.ann_out.pdf_content # ""
        /\ parse_call.ann_out.parse_status = "completed"
        /\ parse_call.ann_out.parse_method \in {"ocr", "ai"}
        /\ ~parse_call.raised
        /\ ~parse_call.caught

\* The provider cleans the text and the summary provider raises, on an
\* announcement that had a summary from an earlier parse.
C24_Witness ==
    /\ SummaryFailed
    /\ parse_call.ann_in = ParsedBefore("sens.pdf")
    /\ parse_call.env.ocr = <<"ocr text", "poor">>
    /\ parse_call.env.summary_ai_available
    /\ parse_call.env.summary_answer = EXC
    /\ parse_call.ann_out.pdf_content = "cleaned text"
    /\ parse_call.ann_out.ai_summary = ""
    /\ parse_call.ann_out.parse_status = "completed"

(***************************************************************************)
(* The provider calls of one parse and of one enrichment.                  *)
(*                                                                         *)
(* parse_call holds a parse with the clean-up and summary calls it issued; *)
(* enrich_call holds an enrichment with the extraction and                 *)
(* description-merge calls it issued.  Enrichments                         *)
(* follow one another on the same store, so that a later one finds the     *)
(* description an earlier one wrote.  The two are independent of each      *)
(* other: a behaviour records one parse, or a run of enrichments.          *)
(***************************************************************************)
\* the provider calls among the calls, each named by its purpose
ProviderCallsAs(calls, purpose) == [i \in 1..CallsTo(calls, "provider") |-> purpose]

\* parse_sens_pdf, lines 81-107: the provider calls of the helpers it
\* invokes, in their order
parse_model_calls(e, plumber, pypdf2) ==
    LET invoked == stages_invoked(e)
        has(stage) == \E i \in 1..Len(invoked) : invoked[i] = stage
        cleaned == extract_with_ai_traced(e.ocr[1], e.parse_ai_available,
                                          plumber, pypdf2, e.parse_answer)
        content == IF e.ocr[2] = "good" THEN e.ocr[1] ELSE cleaned.returned
        summary == generate_summary_traced(content, e.summary_ai_available,
                                           e.summary_answer)
    IN  (IF has("_extract_with_ai")
         THEN ProviderCallsAs(cleaned.calls, "clean-up") ELSE <<>>)
        \o (IF has("_generate_summary")
            THEN ProviderCallsAs(summary.calls, "summary") ELSE <<>>)

\* enrich_from_announcement, lines 80-97: the store and the company id when
\* the AI step is reached
before_ai(db, ann) ==
    LET jse_code == extract_jse_code_from_name(ann.company_name)
        u == upsert_company(db.companies, ann.company_name, jse_code, "")
        links == add_company_sens(db.company_sens, u.id, ann.sens_number)
        sponsor == extract_sponsor(ann)
        s == IF sponsor # ""
             THEN set_sponsor(u.companies, db.sponsor_history, u.id,
                              sponsor, ann.sens_number)
             ELSE [companies |-> u.companies,
                   sponsor_history |-> db.sponsor_history]
        website == extract_website(ann)
        c2 == IF website # ""
              THEN upsert_company(s.companies, ann.company_name, "", website).companies
              ELSE s.companies
    IN  [db |-> [db EXCEPT !.companies = c2,
                           !.sponsor_history = s.sponsor_history,
                           !.company_sens = links],
         company_id |-> u.id]

\* _ai_enrich, lines 149-157: whether _synthesise_description is reached
\* and calls the provider
merge_called(db, company_id, ann, data) ==
    LET jse_code == str_upper(str_strip(or_empty(data.jse_code)))
        c1 == IF jse_code # "" /\ str_len(jse_code) <= 5
              THEN upsert_company(db.companies, ann.company_name, jse_code, "").companies
              ELSE db.companies
        ai_sponsor == str_strip(or_empty(data.sponsor))
        s == IF ai_sponsor # ""
             THEN set_sponsor(c1, db.sponsor_history, company_id, ai_sponsor,
                              ann.sens_number)
             ELSE [companies |-> c1, sponsor_history |-> db.sponsor_history]
        desc == str_strip(or_empty(data.company_description))
        existing == get_description(s.companies, company_id)
    IN  desc # "" /\ existing # "" /\ str_lower(existing) # str_lower(desc)

\* lines 100-104 and _ai_enrich with the text sent to the model from 51
\* characters on
ai_calls_above_fifty(db, company_id, ann, response) ==
    IF ~(ann.pdf_content # <<>> /\ response # NO_CLIENT) THEN <<>>
    ELSE IF Min({content_len(ann.pdf_content), 6000}) <= 50 THEN <<>>
    ELSE LET raw == call_ai(response)
             data == parse_json_response(raw)
         IN  <<"extraction">>
             \o (IF raw # <<>> /\ data.kind = "dict"
                    /\ merge_called(db, company_id, ann, data.value)
                 THEN <<"merge">> ELSE <<>>)

\* lines 100-104 and _ai_enrich, lines 119-195: the provider calls issued
ai_calls(db, company_id, ann, response) ==
    IF ~(ann.pdf_content # <<>> /\ response # NO_CLIENT) THEN <<>>
    ELSE IF Min({content_len(ann.pdf_content), 6000}) < 50 THEN <<>>
    ELSE LET raw == call_ai(response)
             data == parse_json_response(raw)
         IN  <<"extraction">>
             \o (IF raw # <<>> /\ data.kind = "dict"
                    /\ merge_called(db, company_id, ann, data.value)
                 THEN <<"merge">> ELSE <<>>)

\* enrich_from_announcement: the provider calls issued
enrich_model_calls(db, ann, response) ==
    LET b == before_ai(db, ann) IN ai_calls(b.db, b.company_id, ann, response)

\* a filing of 40 characters that names a sponsor and a website
A_brief ==
    [sens_number |-> "S2", company_name |-> "Acme Ltd (ACM)",
     pdf_content |-> <<L_sponsor, L_url>>]

\* a filing of exactly 50 characters
A_fifty ==
    [sens_number |-> "S1", company_name |-> "Acme Ltd (ACM)",
     pdf_content |-> <<L_plain, L_url>>]

CallAnnouncements == {A_full, A_unparsed, A_brief, A_fifty}

CallResponses == {NO_CLIENT, AI_EXC, R_A, R_B_fenced}

\* The environments of a parse whose file exists and whose availability
\* checks do not raise.
CallEnvs ==
    [ ocr : OcrReturns, parse_ai_available : BOOLEAN,
      plumber : PlumberOutcomes, pypdf2 : PyPDF2Outcomes,
      parse_answer : ParseProviderAnswers, summary_ai_available : BOOLEAN,
      summary_answer : SummaryProviderAnswers ]

\* the environment with the two libraries taken together
StageEnv(c) ==
    [ ocr |-> c.ocr, parse_ai_available |-> c.parse_ai_available,
      pypdf |-> extract_with_pypdf(c.plumber, c.pypdf2).returned,
      parse_answer |-> c.parse_answer,
      summary_ai_available |-> c.summary_ai_available,
      summary_answer |-> c.summary_answer, unexpected |-> "nowhere" ]

\* parse_sens_pdf is called on a new announcement whose file exists.
ParseWithCalls ==
    /\ parse_call = NoCall
    /\ enrich_call = NoCall
    /\ \E c \in CallEnvs :
       \E r \in {parse_sens_pdf(NewAnnouncement(1, "sens.pdf"), TRUE, StageEnv(c))} :
          parse_call' = [ op |-> "parse_sens_pdf", env |-> c,
                          ann_out |-> r.ann_out, invoked |-> r.invoked,
                          calls |-> parse_model_calls(StageEnv(c), c.plumber, c.pypdf2) ]
    /\ UNCHANGED <<catVars, ocrVars, parseVars, companyVars, pureVars, procVars>>
    /\ UNCHANGED <<ocr_call, anomaly_call, sentiment_call, enrich_call>>

\* enrich_from_announcement is called.
EnrichWithCalls ==
    /\ parse_call = NoCall
    /\ \E ann \in CallAnnouncements, response \in CallResponses,
          m \in MergeResponses :
       \E r \in {enrich_from_announcement(DB, ann, response, m, TRUE)} :
            /\ Len(r.db.directors) <= MaxDirectors
            /\ Len(r.db.sponsor_history) <= MaxHistory
            /\ Len(r.db.company_sens) <= MaxLinks
            /\ companies' = r.db.companies
            /\ directors' = r.db.directors
            /\ sponsor_history' = r.db.sponsor_history
            /\ company_sens' = r.db.company_sens
            /\ ticker_file' = r.db.ticker_file
            /\ enrich_call' =
                  [ op |-> "enrich_from_announcement", ann |-> ann,
                    response |-> response, merge_response |-> m,
                    company_id |-> r.company_id,
                    raised |-> r.raised,
                    calls |-> enrich_model_calls(DB, ann, response) ]
    /\ UNCHANGED <<last_call, catVars, ocrVars, parseVars, pureVars, procVars>>
    /\ UNCHANGED <<parse_call, ocr_call, anomaly_call, sentiment_call>>

InitProviderCalls == CompanyIdle /\ CatIdle /\ OcrIdle /\ ParseIdle /\ AuxIdle

NextProviderCalls == ParseWithCalls \/ EnrichWithCalls

SpecProviderCalls == InitProviderCalls /\ [][NextProviderCalls]_vars

Parsed == parse_call # NoCall

Enriched == enrich_call # NoCall

\* the text the clean-up call was given
CleanupInput ==
    IF needs_text_layer(parse_call.env.ocr[1])
    THEN extract_with_pypdf(parse_call.env.plumber, parse_call.env.pypdf2).returned
    ELSE parse_call.env.ocr[1]

\* the description the extraction gave, stripped
NewDescription ==
    str_strip(or_empty(parse_json_response(call_ai(enrich_call.response)).value.company_description))

\* a parse issues at most one clean-up call and one summary call, and a
\* call that raised leaves its fallback value
OneCallPerParseStage ==
    Parsed =>
        /\ CallsTo(parse_call.calls, "clean-up") <= 1
        /\ CallsTo(parse_call.calls, "summary") <= 1
        /\ Len(parse_call.calls) <= 2
        /\ (CallsTo(parse_call.calls, "clean-up") = 1
                /\ parse_call.env.parse_answer = EXC) =>
              parse_call.ann_out.pdf_content = CleanupInput
        /\ (CallsTo(parse_call.calls, "summary") = 1
                /\ parse_call.env.summary_answer = EXC) =>
              parse_call.ann_out.ai_summary = ""

\* an enrichment issues at most one extraction call and one merge call, and
\* a merge call that raised leaves the new description
OneCallPerEnrichStage ==
    Enriched =>
        /\ CallsTo(enrich_call.calls, "extraction") <= 1
        /\ CallsTo(enrich_call.calls, "merge") <= 1
        /\ Len(enrich_call.calls) <= 2
        /\ ~enrich_call.raised
        /\ (CallsTo(enrich_call.calls, "merge") = 1
                /\ enrich_call.merge_response = AI_EXC) =>
              companies[enrich_call.company_id].description = NewDescription

\* an extraction call that raised leaves the store as the enrichment
\* without a client leaves it
FailedExtractionIsNoExtraction ==
    (enrich_call' # NoCall /\ enrich_call'.response = AI_EXC) =>
        /\ Len(enrich_call'.calls) <= 1
        /\ DB' = enrich_from_announcement(DB, enrich_call'.ann, NO_CLIENT,
                                          enrich_call'.merge_response, TRUE).db

\* C23: no provider call is retried: one parse issues at most one clean-up
\* call and one summary call, one enrichment at most one extraction call
\* and one description-merge call, and a call that raised is replaced by
\* its fallback value (the text it was given, no summary, no extraction,
\* the new description).
C23_NoRetry ==
    /\ [](OneCallPerParseStage /\ OneCallPerEnrichStage)
    /\ [][FailedExtractionIsNoExtraction]_vars

\* Both provider calls of a parse raise: each was issued once, the OCR text
\* is kept and there is no summary.
C23_Witness ==
    /\ Parsed
    /\ parse_call.env.ocr = <<"ocr text", "poor">>
    /\ parse_call.env.parse_answer = EXC
    /\ parse_call.env.summary_answer = EXC
    /\ parse_call.calls = <<"clean-up", "summary">>
    /\ parse_call.ann_out.pdf_content = "ocr text"
    /\ parse_call.ann_out.ai_summary = ""
    /\ parse_call.ann_out.parse_status = "completed"

\* The merge call of an enrichment raises: one extraction call, one merge
\* call, and the description is the new one.
C23_MergeFailed ==
    /\ Enriched
    /\ enrich_call.calls = <<"extraction", "merge">>
    /\ enrich_call.merge_response = AI_EXC
    /\ companies[enrich_call.company_id].description = NewDescription

\* C27: enrich_from_announcement calls the model exactly when the text of
\* the filing has at least 50 characters and an AI client is configured;
\* otherwise it issues no call, returns, and the company row, the link to
\* the filing, the sponsor found by the pattern and the website are in the
\* store.
C27_ModelCallNeedsTextAndClient ==
    Enriched =>
        LET called == CallsTo(enrich_call.calls, "extraction") = 1
            id == enrich_call.company_id
            ann == enrich_call.ann
        IN  /\ called <=> (content_len(ann.pdf_content) >= 50
                            /\ enrich_call.response # NO_CLIENT)
            /\ ~called =>
                  /\ enrich_call.calls = <<>>
                  /\ ~enrich_call.raised
                  /\ id \in 1..Len(companies)
                  /\ [company_id |-> id, sens_number |-> ann.sens_number]
                        \in Links(company_sens)
                  /\ extract_sponsor(ann) # "" =>
                        companies[id].sponsor = extract_sponsor(ann)
                  /\ extract_website(ann) # "" =>
                        companies[id].website = extract_website(ann)

\* A filing of 40 characters with a client configured: no call, and the
\* first enrichment leaves the row, the link, the sponsor and the website,
\* and nothing the model would have given.
C27_Witness ==
    /\ Enriched
    /\ enrich_call.ann = A_brief
    /\ enrich_call.response = R_A
    /\ enrich_call.calls = <<>>
    /\ Len(companies) = 1
    /\ companies[1].jse_code = "ACM"
    /\ companies[1].sponsor = "Java Capital"
    /\ companies[1].website = L_url
    /\ companies[1].sector = ""
    /\ company_sens = <<[company_id |-> 1, sens_number |-> "S2"]>>
    /\ directors = <<>>

\* A filing of exactly 50 characters with a client: the model is called.
C27_Fifty ==
    /\ Enriched
    /\ enrich_call.ann = A_fifty
    /\ enrich_call.response = R_A
    /\ enrich_call.calls[1] = "extraction"
    /\ companies[enrich_call.company_id].sector = "Industrials"

(***************************************************************************)
(* Sequences of set_sponsor calls (company_db.py lines 357-375) on the     *)
(* companies that upsert_company made.  The enricher, its only caller,     *)
(* passes the id that upsert_company returned (enricher.py lines 81, 91,   *)
(* 151), so the ids are those of existing rows.                            *)
(***************************************************************************)
SponsorArguments == {"", " ", "Nedbank CIB", " Nedbank CIB ", "Java Capital"}

SponsorCompanies == {"Acme Ltd", "Beta Holdings"}

\* upsert_company(name) makes or finds the row of a company.
UpsertForSponsor ==
    /\ \E name \in SponsorCompanies :
       \E r \in {upsert_company(companies, name, "", "")} :
          /\ companies' = r.companies
          /\ last_call' = [op |-> "upsert_company", name |-> name,
                           jse_code |-> "", website |-> "", id |-> r.id]
    /\ UNCHANGED <<directors, sponsor_history, company_sens, ticker_file>>
    /\ UNCHANGED <<catVars, ocrVars, parseVars, auxVars>>

\* one call of set_sponsor
SetSponsor ==
    /\ \E company_id \in 1..Len(companies), sponsor \in SponsorArguments,
          source \in SensNumbers :
       \E r \in {set_sponsor(companies, sponsor_history, company_id, sponsor, source)} :
          /\ Len(r.sponsor_history) <= MaxHistory
          /\ companies' = r.companies
          /\ sponsor_history' = r.sponsor_history
          /\ last_call' = [op |-> "set_sponsor", company_id |-> company_id,
                           sponsor |-> sponsor, source |-> source,
                           was |-> companies[company_id].sponsor]
    /\ UNCHANGED <<directors, company_sens, ticker_file>>
    /\ UNCHANGED <<catVars, ocrVars, parseVars, auxVars>>

InitSponsor == CompanyIdle /\ CatIdle /\ OcrIdle /\ ParseIdle /\ AuxIdle

NextSponsor == UpsertForSponsor \/ SetSponsor

SpecSponsor == InitSponsor /\ [][NextSponsor]_vars

\* the history entries of a company, oldest first
HistoryOf(company_id) ==
    SelectSeq(sponsor_history, LAMBDA h : h.company_id = company_id)

\* the sponsor of every company is that of its latest history entry, and
\* "" when it has none
CurrentIsLatest ==
    \A id \in 1..Len(companies) :
        LET h == HistoryOf(id) IN
        companies[id].sponsor = IF h = <<>> THEN "" ELSE h[Len(h)].sponsor

\* the history only grows at its end
AppendOnly ==
    /\ Len(sponsor_history') >= Len(sponsor_history)
    /\ SubSeq(sponsor_history', 1, Len(sponsor_history)) = sponsor_history

\* a call with the current sponsor appends nothing; any other call with a
\* sponsor appends one entry, with that sponsor stripped
AppendsOnChange ==
    last_call'.op = "set_sponsor" =>
        LET new == str_strip(last_call'.sponsor) IN
        IF new = "" \/ new = companies[last_call'.company_id].sponsor
        THEN sponsor_history' = sponsor_history /\ companies' = companies
        ELSE sponsor_history' =
                Append(sponsor_history,
                       [company_id |-> last_call'.company_id, sponsor |-> new,
                        source |-> last_call'.source])

\* C25: after any sequence of set_sponsor calls the sponsor history has
\* only grown at its end, the sponsor of each company is that of the latest
\* history entry of the company, and a call whose sponsor is the current
\* one appended no entry.
C25_SponsorHistory ==
    /\ []CurrentIsLatest
    /\ [][AppendOnly /\ AppendsOnChange]_vars

\* A company whose sponsor changed and changed back has three entries; the
\* last call named the current sponsor, surrounded by blanks, and added
\* none.
C25_Witness ==
    /\ last_call.op = "set_sponsor"
    /\ last_call.sponsor = " Nedbank CIB "
    /\ last_call.was = "Nedbank CIB"
    /\ Len(HistoryOf(last_call.company_id)) = 3
    /\ HistoryOf(last_call.company_id)[1].sponsor = "Nedbank CIB"
    /\ HistoryOf(last_call.company_id)[2].sponsor = "Java Capital"
    /\ companies[last_call.company_id].sponsor = "Nedbank CIB"

\* the rows resign_director is about: the active ones of the company with
\* that name, compared without case
ActiveRecords(rows, company_id, name) ==
    {i \in 1..Len(rows) :
        /\ rows[i].company_id = company_id
        /\ SQL_LOWER(rows[i].name) = SQL_LOWER(name)
        /\ rows[i].is_active}

\* a company has at most one active record of a name
OneActiveRecordPerName ==
    \A i, j \in 1..Len(directors) :
        (/\ i # j
         /\ directors[i].company_id = directors[j].company_id
         /\ directors[i].is_active /\ directors[j].is_active)
            => SQL_LOWER(directors[i].name) # SQL_LOWER(directors[j].name)

\* a resign_director call adds no row, marks the active record of that name
\* inactive and leaves every other row as it was
ResignMarksInPlace ==
    last_call'.op = "resign_director" =>
        LET hit == ActiveRecords(directors, last_call'.company_id, last_call'.name) IN
        /\ Len(directors') = Len(directors)
        /\ Cardinality(hit) <= 1
        /\ \A i \in 1..Len(directors) :
              IF i \in hit
              THEN /\ ~directors'[i].is_active
                   /\ directors'[i].source_sens = last_call'.source_sens
                   /\ directors'[i].company_id = directors[i].company_id
                   /\ directors'[i].name = directors[i].name
                   /\ directors'[i].role = directors[i].role
              ELSE directors'[i] = directors[i]

\* C26: resign_director marks the existing active record of that name,
\* compared without case, inactive instead of inserting a row: the number
\* of rows is unchanged, and every other director's record is untouched.
C26_ResignMarksExistingRecord ==
    /\ []OneActiveRecordPerName
    /\ [][ResignMarksInPlace]_vars

\* John Smith resigned under the name JOHN SMITH: his record is inactive,
\* Mary Jones's record of the same company is as it was added.
C26_Witness ==
    /\ last_call.op = "resign_director"
    /\ last_call.name = "JOHN SMITH"
    /\ Len(directors) = 2
    /\ \E i, j \in 1..2 :
        /\ directors[i].company_id = last_call.company_id
        /\ directors[i].name = "John Smith"
        /\ ~directors[i].is_active
        /\ directors[i].source_sens = last_call.source_sens
        /\ directors[j].company_id = last_call.company_id
        /\ directors[j].name = "Mary Jones"
        /\ directors[j].is_active

(***************************************************************************)
(* Re-processing: backfill_companies (main.py lines 743-775) passes every  *)
(* announcement with text to enrich_from_announcement again, whatever the  *)
(* store holds of it.  enrich_call holds the announcement, the answers of  *)
(* the model, which are the same on both passes, the number of passes made *)
(* and the store as the first pass left it.                                *)
(***************************************************************************)
\* the tables of the store
StoreTables(db) ==
    [companies |-> db.companies, directors |-> db.directors,
     sponsor_history |-> db.sponsor_history, company_sens |-> db.company_sens]

BackfillAnnouncements == {A_long, A_short, A_full, A_fifty}

BackfillResponses == {NO_CLIENT, AI_EXC, R_A, R_B_fenced, R_C_prose}

\* the passes of one run: 0 enriches an earlier announcement of the
\* company, 1 enriches the announcement for the first time, 2 is
\* backfill_companies enriching it again, the model answering as before
BackfillPasses == 0 .. 2

\* what the pass may be given
PassEnabled(pass, ann, response, m) ==
    IF pass = 0 THEN enrich_call = NoCall /\ company_sens = <<>>
    ELSE IF pass = 1 THEN enrich_call = NoCall
    ELSE /\ enrich_call # NoCall
         /\ enrich_call.passes = 1
         /\ ann = enrich_call.ann
         /\ response = enrich_call.response
         /\ m = enrich_call.merge_response

\* One pass of enrich_from_announcement over the store.
EnrichmentPass ==
    /\ \E pass \in BackfillPasses, ann \in BackfillAnnouncements,
          response \in BackfillResponses, m \in MergeResponses :
       /\ PassEnabled(pass, ann, response, m)
       /\ \E r \in {enrich_from_announcement(DB, ann, response, m, TRUE)} :
          /\ companies' = r.db.companies
          /\ directors' = r.db.directors
          /\ sponsor_history' = r.db.sponsor_history
          /\ company_sens' = r.db.company_sens
          /\ ticker_file' = r.db.ticker_file
          /\ enrich_call' =
                IF pass = 0 THEN enrich_call
                ELSE IF pass = 1
                THEN [ op |-> "backfill_companies", ann |-> ann,
                       response |-> response, merge_response |-> m,
                       passes |-> 1, company_id |-> r.company_id,
                       after_first |-> StoreTables(r.db) ]
                ELSE [enrich_call EXCEPT !.passes = 2]
    /\ UNCHANGED <<last_call, catVars, ocrVars, parseVars, pureVars, procVars>>
    /\ UNCHANGED <<parse_call, ocr_call, anomaly_call, sentiment_call>>

InitBackfill == CompanyIdle /\ CatIdle /\ OcrIdle /\ ParseIdle /\ AuxIdle

NextBackfill == EnrichmentPass

SpecBackfill == InitBackfill /\ [][NextBackfill]_vars

Reprocessed == enrich_call # NoCall /\ enrich_call.passes = 2

\* the sponsor the model named, stripped; "" when it named none
AiSponsor ==
    LET data == parse_json_response(call_ai(enrich_call.response)) IN
    IF enrich_call.response = NO_CLIENT \/ data.kind # "dict" THEN ""
    ELSE IF content_len(enrich_call.ann.pdf_content) < 50 THEN ""
    ELSE str_strip(or_empty(data.value.sponsor))

\* the pattern and the model name two different sponsors
SponsorsDisagree ==
    /\ extract_sponsor(enrich_call.ann) # ""
    /\ AiSponsor # ""
    /\ AiSponsor # extract_sponsor(enrich_call.ann)

\* C28: enriching the same announcement a second time with the same model
\* output leaves the companies, directors, sponsor history and filing
\* links exactly as the first enrichment left them.
C28_ReprocessingIsIdempotent ==
    Reprocessed => StoreTables(DB) = enrich_call.after_first

\* The second pass differs from the first only through the sponsor, and
\* only when the pattern and the model name different sponsors: then it
\* appends both to the history again.
C28_IdempotentUnlessSponsorsDisagree ==
    Reprocessed =>
        /\ companies = enrich_call.after_first.companies
        /\ directors = enrich_call.after_first.directors
        /\ company_sens = enrich_call.after_first.company_sens
        /\ IF SponsorsDisagree
           THEN Len(sponsor_history) = Len(enrich_call.after_first.sponsor_history) + 2
           ELSE sponsor_history = enrich_call.after_first.sponsor_history

\* The text says "Sponsor: Java Capital" and the model says Nedbank CIB:
\* the first pass leaves two history rows, the second pass four.
C28_HistoryGrows ==
    /\ Reprocessed
    /\ enrich_call.ann = A_full
    /\ enrich_call.response = R_A
    /\ Len(enrich_call.after_first.sponsor_history) = 2
    /\ Len(sponsor_history) = 4
    /\ sponsor_history[3].sponsor = "Java Capital"
    /\ sponsor_history[4].sponsor = "Nedbank CIB"
    /\ companies = enrich_call.after_first.companies

(***************************************************************************)
(* Two processes writing to the company store (company_db.py lines 53-59   *)
(* and 212-251).  Each process has a connection of its own on the same     *)
(* file.  upsert_company runs its SELECTs outside a transaction; the       *)
(* transaction of the sqlite3 module begins with the INSERT or UPDATE and  *)
(* is committed when the with block ends.  SQLite serialises the writes,   *)
(* so a write is one step; nothing holds the file between the SELECTs of   *)
(* a call and its write, so the steps of the other process can fall        *)
(* between them.                                                           *)
(***************************************************************************)
\* upsert_company, lines 222-234, with the ticker compared as stored
upsert_select_case_sensitive(rows, name, jse_code) ==
    LET by_code == IF jse_code # ""
                   THEN fetchone({i \in 1..Len(rows) :
                            /\ rows[i].jse_code = jse_code
                            /\ rows[i].jse_code # ""})
                   ELSE 0
    IN  IF by_code # 0 THEN by_code
        ELSE fetchone({i \in 1..Len(rows) :
                SQL_LOWER(rows[i].name) = SQL_LOWER(name)})

\* upsert_company, lines 222-234: the id of the row the SELECTs find, 0
\* when they find none
upsert_select(rows, name, jse_code) ==
    LET by_code == IF jse_code # ""
                   THEN fetchone({i \in 1..Len(rows) :
                            /\ SQL_LOWER(rows[i].jse_code) = SQL_LOWER(jse_code)
                            /\ rows[i].jse_code # ""})
                   ELSE 0
    IN  IF by_code # 0 THEN by_code
        ELSE fetchone({i \in 1..Len(rows) :
                SQL_LOWER(rows[i].name) = SQL_LOWER(name)})

\* upsert_company, lines 236-251: the UPDATE of the row found, or the
\* INSERT when none was found
upsert_write(rows, row, name, jse_code, website) ==
    IF row # 0
    THEN [companies |->
            [rows EXCEPT
                ![row].jse_code = IF jse_code # "" THEN jse_code ELSE @,
                ![row].website = IF website # "" THEN website ELSE @],
          id |-> row]
    ELSE [companies |-> Append(rows, NewCompany(name, jse_code, website)),
          id |-> Len(rows) + 1]

MaxRows == 2

RaceNames == {"Acme Ltd", "Beta Holdings"}

RaceCodes == {"", "ACM", "acm"}

\* some write so far was made on a read that another write had outdated
Interleaved == last_call # NoCall /\ last_call.interleaved

\* A writer enters upsert_company and runs its SELECTs.
SelectRow(w) ==
    /\ writers[w].pc = "idle"
    /\ Len(companies) < MaxRows
    /\ \E name \in RaceNames, jse_code \in RaceCodes :
          writers' = [writers EXCEPT ![w] =
                        [pc |-> "selected", name |-> name, jse_code |-> jse_code,
                         row |-> upsert_select(companies, name, jse_code),
                         read |-> companies]]
    /\ UNCHANGED <<companyVars, scheduler>>
    /\ UNCHANGED <<catVars, ocrVars, parseVars, pureVars, callVars>>

\* The writer runs its UPDATE or INSERT and commits.
WriteRow(w) ==
    /\ writers[w].pc = "selected"
    /\ \E r \in {upsert_write(companies, writers[w].row, writers[w].name,
                              writers[w].jse_code, "")} :
          /\ companies' = r.companies
          /\ last_call' = [op |-> "upsert_company", writer |-> w,
                           name |-> writers[w].name,
                           jse_code |-> writers[w].jse_code,
                           found |-> writers[w].row, id |-> r.id,
                           stale |-> writers[w].read # companies,
                           interleaved |-> Interleaved \/ writers[w].read # companies]
    /\ writers' = [writers EXCEPT ![w] = NotCalling]
    /\ UNCHANGED <<directors, sponsor_history, company_sens, ticker_file, scheduler>>
    /\ UNCHANGED <<catVars, ocrVars, parseVars, pureVars, callVars>>

InitRace == CompanyIdle /\ CatIdle /\ OcrIdle /\ ParseIdle /\ AuxIdle

NextRace == \E w \in Writers : SelectRow(w) \/ WriteRow(w)

SpecRace == InitRace /\ [][NextRace]_vars

\* two rows carry the same ticker, compared without case
DuplicateTicker ==
    \E i, j \in 1..Len(companies) :
        /\ i # j
        /\ companies[i].jse_code # ""
        /\ SQL_LOWER(companies[i].jse_code) = SQL_LOWER(companies[j].jse_code)

\* a write on a read that no other write outdated is a serial call
FreshWriteIsSerialCall ==
    (last_call'.op = "upsert_company" /\ last_call' # last_call /\ ~last_call'.stale) =>
        companies' = upsert_company(companies, last_call'.name,
                                    last_call'.jse_code, "").companies

\* C29: the store takes no lock across the read and the write of
\* upsert_company, so two writers can both find no row for a ticker and
\* both insert one (C29_Witness); two rows with one ticker arise only
\* through such an interleaving, a call whose read was not outdated by
\* another write being the serial call.
C29_DuplicateOnlyByInterleaving ==
    /\ [](DuplicateTicker => Interleaved)
    /\ [][FreshWriteIsSerialCall]_vars

\* Both writers looked for the unseen ticker ACM, found no row, and
\* inserted: two rows for ACM.
C29_Witness ==
    /\ last_call.op = "upsert_company"
    /\ last_call.stale
    /\ last_call.found = 0
    /\ Len(companies) = 2
    /\ companies[1].jse_code = "ACM"
    /\ companies[2].jse_code = "ACM"
    /\ companies[1].name = companies[2].name
    /\ \A w \in Writers : writers[w].pc = "idle"

(***************************************************************************)
(* The scheduler's scrape and its failure counter (main.py lines 72-151,   *)
(* 259-266, 321-340).                                                      *)
(*                                                                         *)
(* One step is one call of scheduled_scrape, made by schedule.run_pending  *)
(* or by check_scrape_trigger.  The scrape raises (SensScraperError) or    *)
(* returns the new announcements; the processing of an announcement can    *)
(* raise outside the try statements of the loop (the upload and the        *)
(* notification are called bare); set_config_value can raise, the          *)
(* connection manager re-raising every database error (models.py lines     *)
(* 80-93).  os._exit ends the process; the container starts it again.      *)
(***************************************************************************)
MAX_CONSECUTIVE_FAILURES == 3

MaxScrapes == 5

ScrapeOutcomes == {"raised", "none new", "new", "new, processing raised"}

\* _record_scrape_result(success, count, error), lines 123-151; exit is
\* "exception" when a set_config_value call raised, "forced restart" when
\* _force_restart was reached
record_scrape_result(s, success, write_fails) ==
    IF success
    THEN [s EXCEPT !.failures = 0,
                   !.status = IF write_fails THEN @ ELSE "ok",
                   !.write_failed = @ \/ write_fails,
                   !.exit = IF write_fails THEN "exception" ELSE "none"]
    ELSE LET n == s.failures + 1 IN
         IF write_fails
         THEN [s EXCEPT !.failures = n, !.write_failed = TRUE,
                        !.exit = "exception"]
         ELSE IF n >= MAX_CONSECUTIVE_FAILURES
         THEN [s EXCEPT !.failures = n, !.status = "fail", !.alerts = @ + 1,
                        !.exit = "forced restart"]
         ELSE [s EXCEPT !.failures = n, !.status = "fail", !.exit = "none"]

\* scheduled_scrape(), lines 72-121, and what its caller does with an
\* exception: check_scrape_trigger logs it (lines 324-330), run_pending and
\* run_scheduler let it through (lines 337-340)
scheduled_scrape(s, via, outcome, write_fails) ==
    LET scrape_ok == outcome # "raised"
        r == record_scrape_result(s, scrape_ok, write_fails)
        caught == r.exit = "exception" /\ via = "check_scrape_trigger"
    IN  [r EXCEPT !.exit = IF caught THEN "none" ELSE @,
                  !.running = r.exit = "none" \/ caught,
                  !.streak = IF scrape_ok THEN 0 ELSE s.streak + 1,
                  !.scrapes = @ + 1,
                  !.last = [via |-> via, outcome |-> outcome,
                            write_fails |-> write_fails, was |-> s.failures]]

\* The scheduler runs a scrape.
ScheduledScrape ==
    /\ scheduler.running
    /\ scheduler.scrapes < MaxScrapes
    /\ \E via \in {"run_pending", "check_scrape_trigger"},
          outcome \in ScrapeOutcomes, write_fails \in BOOLEAN :
          scheduler' = scheduled_scrape(scheduler, via, outcome, write_fails)
    /\ UNCHANGED <<catVars, ocrVars, parseVars, companyVars, pureVars, callVars, writers>>

\* The container starts the process again: a new JAIBirdScheduler.
StartAgain ==
    /\ ~scheduler.running
    /\ scheduler' = [SchedulerStarted EXCEPT !.scrapes = scheduler.scrapes,
                                             !.alerts = scheduler.alerts,
                                             !.write_failed = scheduler.write_failed,
                                             !.last = [via |-> "start"]]
    /\ UNCHANGED <<catVars, ocrVars, parseVars, companyVars, pureVars, callVars, writers>>

InitScheduler == CompanyIdle /\ CatIdle /\ OcrIdle /\ ParseIdle /\ AuxIdle

NextScheduler == ScheduledScrape \/ StartAgain

SpecScheduler == InitScheduler /\ [][NextScheduler]_vars

\* the step is a scrape
Scraped == scheduler'.scrapes = scheduler.scrapes + 1

\* what a scrape does to the counter, and when the alert and the forced
\* restart fire
CounterStep ==
    Scraped =>
        /\ scheduler'.failures =
              IF scheduler'.last.outcome = "raised" THEN scheduler.failures + 1 ELSE 0
        /\ (scheduler'.alerts = scheduler.alerts + 1)
              <=> (scheduler'.failures = MAX_CONSECUTIVE_FAILURES)
        /\ (scheduler'.exit = "forced restart")
              <=> (scheduler'.failures = MAX_CONSECUTIVE_FAILURES)
        /\ scheduler'.exit = "forced restart" =>
              scheduler'.streak >= MAX_CONSECUTIVE_FAILURES

\* C30: a successful scrape, one without new filings included, resets the
\* counter to 0 and a failed one adds 1 to it; the alert and the forced
\* restart fire exactly when the counter reaches 3, so a running scheduler
\* never has a counter of 3 or more and never restarts after fewer than 3
\* consecutive failures.
C30_AlertAndRestartAtThree ==
    /\ [](scheduler.running => scheduler.failures < MAX_CONSECUTIVE_FAILURES)
    /\ [][CounterStep]_vars

\* The same, for the scrapes whose status writes succeed, and whatever the
\* writes do: the counter follows the scrapes, and a forced restart comes
\* only with an alert and after three consecutive failures or more.
C30_WhenStatusWritesSucceed ==
    /\ [](~scheduler.write_failed =>
            (scheduler.running => scheduler.failures < MAX_CONSECUTIVE_FAILURES))
    /\ [][~scheduler'.write_failed => CounterStep]_vars
    /\ [][Scraped =>
            /\ scheduler'.failures =
                  IF scheduler'.last.outcome = "raised"
                  THEN scheduler.failures + 1 ELSE 0
            /\ scheduler'.failures = scheduler'.streak
            /\ scheduler'.exit = "forced restart" =>
                  /\ scheduler'.alerts = scheduler.alerts + 1
                  /\ scheduler'.streak >= MAX_CONSECUTIVE_FAILURES]_vars

\* The third failed scrape in a row was started by the trigger file and its
\* status write raised: the counter is 3, no alert was sent, and the
\* scheduler runs on.
C30_RunsOnAtThree ==
    /\ scheduler.running
    /\ scheduler.failures = 3
    /\ scheduler.streak = 3
    /\ scheduler.alerts = 0
    /\ scheduler.last.via = "check_scrape_trigger"
    /\ scheduler.last.outcome = "raised"
    /\ scheduler.last.write_fails

====
